---------------------------- MODULE Spec2Model ----------------------------
(***************************************************************************)
(* CI/CD health dashboard: the alert engine (AlertEngine.js) and the       *)
(* metrics collector (MetricsCollector, second half of simple-server.js),   *)
(* and the health monitoring app with its probes and counters.             *)
(*                                                                         *)
(* Time is an integer number of ticks; TicksPerMinute ticks make a minute. *)
(* Every `await` of the source is a point where another handler may run,   *)
(* so every action below is one synchronous segment between two awaits.    *)
(***************************************************************************)
EXTENDS Integers, Sequences, FiniteSets, TLC

VARIABLES
    now,            \* the wall clock, in ticks
    rules,          \* AlertEngine.rules: the cached rules, in Map insertion order
    alertCooldowns, \* AlertEngine.alertCooldowns: <<ruleId, projectName>> -> moment
    alerts,         \* the Alert collection, in insertion order
    sent,           \* calls made on the notification service, in order
    events,         \* socketIo.emit calls, in order
    runs,           \* the evaluateRules calls started so far, each with the
                    \* trail of what its log lines tell of every rule
    builds,         \* the Build collection, in insertion order
    projects,       \* the Project collection
    metrics,        \* the Metric collection
    calls,          \* the processBuildData calls started so far
    ruleDocs,       \* the AlertRule collection, in insertion order
    ops,            \* the calls made on the engine's rule and alert
                    \* management methods so far
    appState,       \* the health app's appState: counters and dependencies
    timers,         \* the dependencies whose recovery setTimeout is pending
    responses       \* the requests the health app answered, with the answers

vars == <<now, rules, alertCooldowns, alerts, sent, events, runs,
          builds, projects, metrics, calls, ruleDocs, ops,
          appState, timers, responses>>

alertVars == <<rules, alertCooldowns, alerts, sent, events, runs>>
ingestVars == <<builds, projects, metrics, calls>>
adminVars == <<ruleDocs, ops>>
healthVars == <<appState, timers, responses>>

-----------------------------------------------------------------------------
(* Bounds of the model *)

TicksPerMinute == 2
MaxNow == 3
MaxRuns == 2

(* Program constants *)

DefaultCooldownMinutes == 15
DefaultThresholdMinutes == 30
DefaultTimeWindowMinutes == 60
DefaultErrorRateThreshold == 50
DefaultMinimumBuilds == 3
DefaultConsecutiveCount == 3
DefaultFailureRateThreshold == 10

-----------------------------------------------------------------------------
(* Helpers on sequences *)

Range(s) == {s[i] : i \in DOMAIN s}

Includes(s, x) == \E i \in DOMAIN s : s[i] = x

RECURSIVE Filter(_, _)
Filter(s, keep) ==
    IF s = <<>> THEN <<>>
    ELSE IF Head(s) \in keep THEN <<Head(s)>> \o Filter(Tail(s), keep)
         ELSE Filter(Tail(s), keep)

(* A field of a JS object that may be absent (undefined). *)
Has(obj, f) == f \in DOMAIN obj

(* `const { f = d } = obj`: the default applies when the field is undefined. *)
GetOr(obj, f, d) == IF Has(obj, f) THEN obj[f] ELSE d

(* `obj.f || d` on a number: the default applies when the field is undefined
   or 0. *)
NumOr(obj, f, d) == IF Has(obj, f) /\ obj[f] # 0 THEN obj[f] ELSE d

-----------------------------------------------------------------------------
(* The health app just started *)

Dependencies == {"database", "redis", "externalApi"}

(* appState as the module sets it up. *)
InitialAppState ==
    [requestCount |-> 0, errors |-> 0,
     dependencies |-> [dep \in Dependencies |-> [status |-> "healthy"]]]

(* The health app has answered no request and no scheduled check has run. *)
HealthIdle ==
    /\ appState = InitialAppState
    /\ timers = {}
    /\ responses = <<>>

-----------------------------------------------------------------------------
(* The rules the alert engine is run against *)

Rule1 ==
    [id |-> "r1", name |-> "build failed",
     condition |-> [type |-> "build_failure",
                    parameters |-> [projects |-> <<>>, branches |-> <<>>,
                                    environments |-> <<>>]],
     channels |-> <<[type |-> "slack"], [type |-> "email"]>>,
     severity |-> "critical", cooldownMinutes |-> 1, enabled |-> TRUE]

Rule2 ==
    [id |-> "r2", name |-> "deployment failed",
     condition |-> [type |-> "deployment_failure",
                    parameters |-> [environments |-> <<"production">>]],
     channels |-> <<[type |-> "slack"]>>,
     severity |-> "critical", cooldownMinutes |-> 0, enabled |-> TRUE]

(* A stored rule whose condition carries no parameters object. *)
Rule3 ==
    [id |-> "r3", name |-> "malformed",
     condition |-> [type |-> "build_failure"],
     channels |-> <<[type |-> "webhook"]>>,
     severity |-> "warning", cooldownMinutes |-> 1, enabled |-> TRUE]

Rule4 ==
    [id |-> "r4", name |-> "two failures in a row",
     condition |-> [type |-> "consecutive_failures",
                    parameters |-> [consecutiveCount |-> 2]],
     channels |-> <<[type |-> "webhook"]>>,
     severity |-> "warning", cooldownMinutes |-> 2, enabled |-> TRUE]

InitialCaches == { <<Rule3, Rule1>>, <<Rule4, Rule2>> }

(* The builds already stored when the alert engine is studied on its own. *)
SeedBuilds ==
    << [_id |-> <<"seed", 1>>, buildId |-> "41", projectName |-> "api", branch |-> "main",
        status |-> "failure", duration |-> 120, startTime |-> 0, endTime |-> 0,
        buildNumber |-> 1, environment |-> "production",
        testResults |-> [total |-> 0, failed |-> 0], processedAt |-> 0],
       [_id |-> <<"seed", 2>>, buildId |-> "42", projectName |-> "api", branch |-> "main",
        status |-> "failure", duration |-> 60, startTime |-> 0, endTime |-> 0,
        buildNumber |-> 2, environment |-> "production",
        testResults |-> [total |-> 0, failed |-> 0], processedAt |-> 0],
       [_id |-> <<"seed", 3>>, buildId |-> "7", projectName |-> "web", branch |-> "main",
        status |-> "success", duration |-> 30, startTime |-> 0, endTime |-> 0,
        buildNumber |-> 1, environment |-> "staging",
        testResults |-> [total |-> 0, failed |-> 0], processedAt |-> 0] >>

-----------------------------------------------------------------------------
(* Rule conditions *)

(* As evaluateBuildFailure, but an empty filter list lets no build pass. *)
evaluateBuildFailureNoWildcard(condition, buildData) ==
    LET targetProjects == GetOr(condition.parameters, "projects", <<>>)
        targetBranches == GetOr(condition.parameters, "branches", <<>>)
        targetEnvironments == GetOr(condition.parameters, "environments", <<>>)
    IN  /\ buildData.status = "failure"
        /\ Includes(targetProjects, buildData.projectName)
        /\ Includes(targetBranches, buildData.branch)
        /\ Includes(targetEnvironments, buildData.environment)

evaluateBuildFailure(condition, buildData) ==
    LET targetProjects == GetOr(condition.parameters, "projects", <<>>)
        targetBranches == GetOr(condition.parameters, "branches", <<>>)
        targetEnvironments == GetOr(condition.parameters, "environments", <<>>)
    IN  /\ buildData.status = "failure"
        /\ ~(Len(targetProjects) > 0
              /\ ~Includes(targetProjects, buildData.projectName))
        /\ ~(Len(targetBranches) > 0
              /\ ~Includes(targetBranches, buildData.branch))
        /\ ~(Len(targetEnvironments) > 0
              /\ ~Includes(targetEnvironments, buildData.environment))

evaluateDurationThreshold(condition, buildData) ==
    LET thresholdMinutes ==
            NumOr(condition.parameters, "thresholdMinutes", DefaultThresholdMinutes)
    IN  buildData.duration > 60 * thresholdMinutes

(* The pairs <<failed, total>>, total up to 100, for which
   (failed / total) * 100 in double-precision arithmetic is below the exact
   quotient when that is a whole number: (29 / 50) * 100 evaluates to
   57.99999999999999.  For no pair of this range does it reach a whole number
   that the exact quotient is below. *)
RoundedBelow == { <<29, 50>>, <<29, 100>>, <<57, 100>>, <<58, 100>> }

(* (failed / total) * 100 >= threshold, for a whole threshold: 0 / 0 is NaN,
   which is not >= anything. *)
errorRateAtLeast(failed, total, threshold) ==
    /\ total # 0
    /\ failed * 100 >= threshold * total
    /\ ~(<<failed, total>> \in RoundedBelow /\ failed * 100 = threshold * total)

(* Build.find({projectName, endTime: {$gte: timeWindow}}) *)
evaluateErrorRate(condition, buildData) ==
    LET timeWindowMinutes ==
            GetOr(condition.parameters, "timeWindowMinutes", DefaultTimeWindowMinutes)
        errorRateThreshold ==
            GetOr(condition.parameters, "errorRateThreshold", DefaultErrorRateThreshold)
        minimumBuilds ==
            GetOr(condition.parameters, "minimumBuilds", DefaultMinimumBuilds)
        timeWindow == now - timeWindowMinutes * TicksPerMinute
        recentBuilds == {i \in DOMAIN builds :
                            /\ builds[i].projectName = buildData.projectName
                            /\ builds[i].endTime >= timeWindow}
        failedBuilds == {i \in recentBuilds : builds[i].status = "failure"}
    IN  IF Cardinality(recentBuilds) < minimumBuilds THEN FALSE
        ELSE errorRateAtLeast(Cardinality(failedBuilds), Cardinality(recentBuilds),
                              errorRateThreshold)

(* Build.find({projectName, branch}).sort({buildNumber: -1}).limit(n): the n
   stored builds that have fewer than n builds above them.  Builds with equal
   build numbers are ordered by their place in the collection. *)
MostRecentBuilds(projectName, branch, n) ==
    LET cand == {i \in DOMAIN builds :
                    /\ builds[i].projectName = projectName
                    /\ builds[i].branch = branch}
        Above(i) == {j \in cand :
                        \/ builds[j].buildNumber > builds[i].buildNumber
                        \/ /\ builds[j].buildNumber = builds[i].buildNumber
                           /\ j < i}
    IN  {i \in cand : Cardinality(Above(i)) < n}

evaluateConsecutiveFailures(condition, buildData) ==
    LET consecutiveCount ==
            GetOr(condition.parameters, "consecutiveCount", DefaultConsecutiveCount)
        recentBuilds ==
            MostRecentBuilds(buildData.projectName, buildData.branch, consecutiveCount)
    IN  IF buildData.status # "failure" THEN FALSE
        ELSE IF Cardinality(recentBuilds) < consecutiveCount THEN FALSE
        ELSE \A i \in recentBuilds : builds[i].status = "failure"

evaluateTestFailureRate(condition, buildData) ==
    LET failureRateThreshold ==
            GetOr(condition.parameters, "failureRateThreshold",
                  DefaultFailureRateThreshold)
    IN  IF buildData.testResults.total = 0 THEN FALSE
        ELSE buildData.testResults.failed * 100
                >= failureRateThreshold * buildData.testResults.total

evaluateDeploymentFailure(condition, buildData) ==
    LET targetEnvironments ==
            GetOr(condition.parameters, "environments", <<"production", "staging">>)
    IN  /\ buildData.status = "failure"
        /\ Includes(targetEnvironments, buildData.environment)

KnownTypes == {"build_failure", "duration_threshold", "error_rate",
               "consecutive_failures", "test_failure_rate", "deployment_failure"}

(* The condition types whose evaluation queries the Build collection. *)
QueriesStore(type) == type \in {"error_rate", "consecutive_failures"}

(* evaluateRule: "match", "nomatch", or "throw" when the evaluation raises:
   a condition without a parameters object (TypeError on
   condition.parameters.x) or a failed store query. *)
evaluateRule(rule, buildData, storeOk) ==
    LET condition == rule.condition
        type == condition.type
        Verdict(b) == IF b THEN "match" ELSE "nomatch"
    IN  IF type \notin KnownTypes THEN "nomatch"
        ELSE IF ~Has(condition, "parameters") THEN "throw"
        ELSE IF type = "consecutive_failures" /\ buildData.status # "failure"
             THEN "nomatch"
        ELSE IF QueriesStore(type) /\ ~storeOk THEN "throw"
        ELSE CASE type = "build_failure" ->
                    Verdict(evaluateBuildFailure(condition, buildData))
               [] type = "duration_threshold" ->
                    Verdict(evaluateDurationThreshold(condition, buildData))
               [] type = "error_rate" ->
                    Verdict(evaluateErrorRate(condition, buildData))
               [] type = "consecutive_failures" ->
                    Verdict(evaluateConsecutiveFailures(condition, buildData))
               [] type = "test_failure_rate" ->
                    Verdict(evaluateTestFailureRate(condition, buildData))
               [] type = "deployment_failure" ->
                    Verdict(evaluateDeploymentFailure(condition, buildData))

-----------------------------------------------------------------------------
(* The alert dispatcher *)

(* `${rule._id}-${buildData.projectName}` *)
cooldownKey(rule, buildData) == <<rule.id, buildData.projectName>>

(* moment().diff(lastAlert, 'minutes'): whole minutes, truncated. *)
diffMinutes(later, earlier) == (later - earlier) \div TicksPerMinute

(* rule.cooldownMinutes || 15 *)
cooldownMinutesOf(rule) == NumOr(rule, "cooldownMinutes", DefaultCooldownMinutes)

(* As inCooldown, but a dispatch exactly cooldownMinutes after the last one is
   still held back. *)
inCooldownInclusive(rule, buildData) ==
    LET key == cooldownKey(rule, buildData)
    IN  /\ key \in DOMAIN alertCooldowns
        /\ diffMinutes(now, alertCooldowns[key]) <= cooldownMinutesOf(rule)

(* The cooldown check at the head of triggerAlert. *)
inCooldown(rule, buildData) ==
    LET key == cooldownKey(rule, buildData)
    IN  /\ key \in DOMAIN alertCooldowns
        /\ diffMinutes(now, alertCooldowns[key]) < cooldownMinutesOf(rule)

(* alertCooldowns.set(cooldownKey, moment()) *)
setCooldown(rule, buildData) ==
    LET key == cooldownKey(rule, buildData)
    IN  [k \in DOMAIN alertCooldowns \cup {key} |->
            IF k = key THEN now ELSE alertCooldowns[k]]

NoRule == [id |-> "none"]

(* The place of an entry that was deleted from the rule cache.  An iteration
   over a Map that is under way skips an entry deleted before it is reached,
   and reaches, at the end, an entry set after it began. *)
Deleted == [id |-> "deleted"]
NoAlert == [_id |-> "none"]

(* new Alert({...}) in createAlert; r and i make the fresh _id. *)
newAlert(r, i, rule, buildData) ==
    [_id |-> <<"alert", r, i>>, ruleId |-> rule.id, ruleName |-> rule.name,
     severity |-> rule.severity, projectName |-> buildData.projectName,
     buildId |-> buildData._id, buildNumber |-> buildData.buildNumber,
     status |-> "active", timestamp |-> now]

(* The loop of evaluateRules moves to the next entry of the rule cache; the
   call ends when there is none. *)
advance(run) ==
    LET later == {j \in DOMAIN rules : j > run.idx /\ rules[j] # Deleted}
        next == CHOOSE j \in later : \A k \in later : j <= k
    IN  IF later # {}
        THEN [run EXCEPT !.idx = next, !.rule = rules[next],
                         !.pc = "eval", !.alert = NoAlert, !.ch = 0]
        ELSE [run EXCEPT !.idx = Len(rules) + 1, !.rule = NoRule,
                         !.pc = "done", !.alert = NoAlert, !.ch = 0]

(* As nextRule, but an error thrown for one rule ends the whole call. *)
nextRuleStoppingOnThrow(run, outcome) ==
    IF outcome = "threw"
    THEN [run EXCEPT !.trail = Append(run.trail, outcome), !.pc = "done",
                     !.rule = NoRule, !.alert = NoAlert, !.ch = 0]
    ELSE advance([run EXCEPT !.trail = Append(run.trail, outcome)])

(* As nextRule, but the first rule that fires ends the call. *)
nextRuleFirstMatchWins(run, outcome) ==
    IF outcome = "fired"
    THEN [run EXCEPT !.trail = Append(run.trail, outcome), !.pc = "done",
                     !.idx = Len(rules) + 1, !.rule = NoRule,
                     !.alert = NoAlert, !.ch = 0]
    ELSE advance([run EXCEPT !.trail = Append(run.trail, outcome)])

(* The rule in hand is over with the given outcome ("nomatch", "suppressed",
   "fired", or "threw" when the catch of evaluateRules or of triggerAlert
   logged an error); the loop goes on. *)
nextRule(run, outcome) ==
    advance([run EXCEPT !.trail = Append(run.trail, outcome)])

(* evaluateRules(buildData) is entered: the loop takes the first cached rule. *)
startRun(buildData) ==
    advance([build |-> buildData, idx |-> 0, rule |-> NoRule, pc |-> "start",
             alert |-> NoAlert, ch |-> 0, trail |-> <<>>])

(* The build.processed listener: alertEngine.evaluateRules(buildData), not
   awaited.  The event is emitted once per stored build, in the order in which
   the builds were stored. *)
Dispatch(i) ==
    /\ Len(runs) < MaxRuns
    /\ \A r \in DOMAIN runs : \A j \in DOMAIN builds :
            builds[j]._id = runs[r].build._id => j < i
    /\ runs' = Append(runs, startRun(builds[i]))
    /\ UNCHANGED <<now, rules, alertCooldowns, alerts, sent, events>>
    /\ UNCHANGED ingestVars
    /\ UNCHANGED healthVars
    /\ UNCHANGED adminVars

(* await this.evaluateRule(rule, buildData) returns or throws. *)
EvalRule(r, storeOk) ==
    LET run == runs[r]
        verdict == evaluateRule(run.rule, run.build, storeOk)
    IN  /\ run.pc = "eval"
        /\ storeOk \/ (QueriesStore(run.rule.condition.type)
                        /\ evaluateRule(run.rule, run.build, TRUE) # verdict)
        /\ runs' = [runs EXCEPT ![r] =
                        IF verdict = "match" THEN [run EXCEPT !.pc = "trigger"]
                        ELSE IF verdict = "throw" THEN nextRule(run, "threw")
                        ELSE nextRule(run, "nomatch")]
        /\ UNCHANGED <<now, rules, alertCooldowns, alerts, sent, events>>
        /\ UNCHANGED ingestVars
        /\ UNCHANGED healthVars
        /\ UNCHANGED adminVars

(* As TriggerAlert, but a suppressed dispatch restarts the cooldown window. *)
TriggerAlertRefreshing(r) ==
    LET run == runs[r]
    IN  /\ run.pc = "trigger"
        /\ runs' = [runs EXCEPT ![r] =
                        IF inCooldown(run.rule, run.build)
                        THEN nextRule(run, "suppressed")
                        ELSE [run EXCEPT !.pc = "save",
                                 !.alert = newAlert(r, run.idx, run.rule, run.build)]]
        /\ alertCooldowns' = IF inCooldown(run.rule, run.build)
                             THEN setCooldown(run.rule, run.build)
                             ELSE alertCooldowns
        /\ UNCHANGED <<now, rules, alerts, sent, events>>
        /\ UNCHANGED ingestVars
        /\ UNCHANGED healthVars
        /\ UNCHANGED adminVars

(* triggerAlert up to its first await: the cooldown check, then createAlert
   builds the Alert and starts alert.save(). *)
TriggerAlert(r) ==
    LET run == runs[r]
    IN  /\ run.pc = "trigger"
        /\ runs' = [runs EXCEPT ![r] =
                        IF inCooldown(run.rule, run.build)
                        THEN nextRule(run, "suppressed")
                        ELSE [run EXCEPT !.pc = "save",
                                 !.alert = newAlert(r, run.idx, run.rule, run.build)]]
        /\ UNCHANGED <<now, rules, alertCooldowns, alerts, sent, events>>
        /\ UNCHANGED ingestVars
        /\ UNCHANGED healthVars
        /\ UNCHANGED adminVars

(* await alert.save() returns (the Alert is stored, sendNotifications starts on
   the first channel) or throws (caught at the end of triggerAlert). *)
SaveAlert(r, ok) ==
    LET run == runs[r]
    IN  /\ run.pc = "save"
        /\ alerts' = IF ok THEN Append(alerts, run.alert) ELSE alerts
        /\ runs' = [runs EXCEPT ![r] =
                        IF ok THEN [run EXCEPT !.pc = "send", !.ch = 1]
                        ELSE nextRule(run, "threw")]
        /\ UNCHANGED <<now, rules, alertCooldowns, sent, events>>
        /\ UNCHANGED ingestVars
        /\ UNCHANGED healthVars
        /\ UNCHANGED adminVars

ChannelTypes == {"slack", "email", "webhook"}

(* As SendChannel, but a channel that throws ends sendNotifications. *)
SendChannelAborting(r, ok) ==
    LET run == runs[r]
        channel == run.rule.channels[run.ch]
    IN  /\ run.pc = "send"
        /\ run.ch <= Len(run.rule.channels)
        /\ sent' = Append(sent, [alert |-> run.alert._id, ch |-> run.ch,
                                 type |-> channel.type, ok |-> ok])
        /\ runs' = [runs EXCEPT ![r] =
                        [run EXCEPT !.ch = IF ok THEN run.ch + 1
                                           ELSE Len(run.rule.channels) + 1]]
        /\ UNCHANGED <<now, rules, alertCooldowns, alerts, events>>
        /\ UNCHANGED ingestVars
        /\ UNCHANGED healthVars
        /\ UNCHANGED adminVars

(* One turn of the loop of sendNotifications: the await on the channel's send
   returns or throws; a throw is caught and logged.  A channel of unknown type
   is logged and skipped. *)
SendChannel(r, ok) ==
    LET run == runs[r]
        channel == run.rule.channels[run.ch]
    IN  /\ run.pc = "send"
        /\ run.ch <= Len(run.rule.channels)
        /\ ok \/ channel.type \in ChannelTypes
        /\ sent' = IF channel.type \in ChannelTypes
                   THEN Append(sent, [alert |-> run.alert._id, ch |-> run.ch,
                                      type |-> channel.type, ok |-> ok])
                   ELSE sent
        /\ runs' = [runs EXCEPT ![r] = [run EXCEPT !.ch = run.ch + 1]]
        /\ UNCHANGED <<now, rules, alertCooldowns, alerts, events>>
        /\ UNCHANGED ingestVars
        /\ UNCHANGED healthVars
        /\ UNCHANGED adminVars

(* As FinishTrigger, but the cooldown is set only when a delivery succeeded. *)
FinishTriggerIfDelivered(r) ==
    LET run == runs[r]
        delivered == \E k \in DOMAIN sent : /\ sent[k].alert = run.alert._id
                                            /\ sent[k].ok
    IN  /\ run.pc = "send"
        /\ run.ch > Len(run.rule.channels)
        /\ events' = Append(events,
                [name |-> "alert.triggered", id |-> run.alert._id,
                 ruleName |-> run.rule.name, severity |-> run.rule.severity,
                 projectName |-> run.build.projectName,
                 buildId |-> run.build._id, timestamp |-> run.alert.timestamp,
                 at |-> now])
        /\ alertCooldowns' = IF delivered THEN setCooldown(run.rule, run.build)
                             ELSE alertCooldowns
        /\ runs' = [runs EXCEPT ![r] = nextRule(run, "fired")]
        /\ UNCHANGED <<now, rules, alerts, sent>>
        /\ UNCHANGED ingestVars
        /\ UNCHANGED healthVars
        /\ UNCHANGED adminVars

(* After sendNotifications: socketIo.emit('alert.triggered'), then the
   cooldown is set, and evaluateRules goes on with the next rule.  Each entry
   of events also tells at which instant it was emitted. *)
FinishTrigger(r) ==
    LET run == runs[r]
    IN  /\ run.pc = "send"
        /\ run.ch > Len(run.rule.channels)
        /\ events' = Append(events,
                [name |-> "alert.triggered", id |-> run.alert._id,
                 ruleName |-> run.rule.name, severity |-> run.rule.severity,
                 projectName |-> run.build.projectName,
                 buildId |-> run.build._id, timestamp |-> run.alert.timestamp,
                 at |-> now])
        /\ alertCooldowns' = setCooldown(run.rule, run.build)
        /\ runs' = [runs EXCEPT ![r] = nextRule(run, "fired")]
        /\ UNCHANGED <<now, rules, alerts, sent>>
        /\ UNCHANGED ingestVars
        /\ UNCHANGED healthVars
        /\ UNCHANGED adminVars

(* Time passes. *)
Tick ==
    /\ now < MaxNow
    /\ now' = now + 1
    /\ UNCHANGED <<rules, alertCooldowns, alerts, sent, events, runs>>
    /\ UNCHANGED ingestVars
    /\ UNCHANGED healthVars
    /\ UNCHANGED adminVars

(* The alert engine after its constructor's loadAlertRules has finished, over
   a store that already holds builds. *)
InitAlert ==
    /\ now = 0
    /\ rules \in InitialCaches
    /\ ruleDocs = rules
    /\ ops = <<>>
    /\ HealthIdle
    /\ alertCooldowns = <<>>
    /\ alerts = <<>>
    /\ sent = <<>>
    /\ events = <<>>
    /\ runs = <<>>
    /\ builds = SeedBuilds
    /\ projects = <<>>
    /\ metrics = <<>>
    /\ calls = <<>>

RunStep(r) ==
    \/ \E storeOk \in BOOLEAN : EvalRule(r, storeOk)
    \/ TriggerAlert(r)
    \/ \E ok \in BOOLEAN : SaveAlert(r, ok)
    \/ \E ok \in BOOLEAN : SendChannel(r, ok)
    \/ FinishTrigger(r)

NextAlert ==
    \/ \E i \in DOMAIN builds : Dispatch(i)
    \/ \E r \in DOMAIN runs : RunStep(r)
    \/ Tick

SpecAlert == InitAlert /\ [][NextAlert]_vars

(* The same, with the matching builds dispatched strictly one after another:
   a build is dispatched only when every earlier evaluateRules call is over. *)
AllRunsDone == \A r \in DOMAIN runs : runs[r].pc = "done"

NextAlertSeq ==
    \/ \E i \in DOMAIN builds : AllRunsDone /\ Dispatch(i)
    \/ \E r \in DOMAIN runs : RunStep(r)
    \/ Tick

SpecAlertSeq == InitAlert /\ [][NextAlertSeq]_vars

-----------------------------------------------------------------------------
(* Rule management *)

MaxOps == 2

(* A rule that is created disabled. *)
Rule5 ==
    [id |-> "r5", name |-> "muted",
     condition |-> [type |-> "build_failure",
                    parameters |-> [projects |-> <<>>, branches |-> <<>>,
                                    environments |-> <<>>]],
     channels |-> <<[type |-> "slack"]>>,
     severity |-> "info", cooldownMinutes |-> 1, enabled |-> FALSE]

(* What createAlertRule and updateAlertRule are called with. *)
NewRules == {Rule5}
RuleIds == {"r2", "r5"}
UpdateDatas == { [enabled |-> FALSE], [enabled |-> TRUE], [severity |-> "info"] }

(* this.rules.set(id, rule) *)
cacheSet(id, rule) ==
    IF \E i \in DOMAIN rules : rules[i].id = id
    THEN [i \in DOMAIN rules |-> IF rules[i].id = id THEN rule ELSE rules[i]]
    ELSE Append(rules, rule)

(* this.rules.delete(id) *)
cacheDelete(id) ==
    [i \in DOMAIN rules |-> IF rules[i].id = id THEN Deleted ELSE rules[i]]

(* The stored rule of an id, NoRule when there is none. *)
findRuleById(id) ==
    IF \E i \in DOMAIN ruleDocs : ruleDocs[i].id = id
    THEN ruleDocs[CHOOSE i \in DOMAIN ruleDocs : ruleDocs[i].id = id]
    ELSE NoRule

(* An update document applied to a stored document. *)
applyUpdate(doc, updateData) ==
    [f \in DOMAIN doc |-> IF f \in DOMAIN updateData THEN updateData[f] ELSE doc[f]]

(* A management call whose store operation was carried out (or failed); its
   continuation has yet to run when pc is "reply". *)
newOp(op, id, result, ok) ==
    [op |-> op, id |-> id, result |-> result,
     pc |-> IF ok THEN "reply" ELSE "failed", seen |-> 0]

(* The continuation of a call has run: the call is over.  seen tells how many
   evaluateRules calls had been entered by then. *)
over(o) == [ops EXCEPT ![o] = [@ EXCEPT !.pc = "done", !.seen = Len(runs)]]

(* createAlertRule(ruleData) up to the answer of the store: new AlertRule,
   rule.save().  The _id of the new rule is fresh: no rule is stored under it
   and no call was made with it before. *)
CreateAlertRule(ruleData, ok) ==
    /\ Len(ops) < MaxOps
    /\ findRuleById(ruleData.id) = NoRule
    /\ \A o \in DOMAIN ops : ops[o].id # ruleData.id
    /\ ruleDocs' = IF ok THEN Append(ruleDocs, ruleData) ELSE ruleDocs
    /\ ops' = Append(ops, newOp("create", ruleData.id, ruleData, ok))
    /\ UNCHANGED <<now, rules, alertCooldowns, alerts, sent, events, runs>>
    /\ UNCHANGED healthVars
    /\ UNCHANGED ingestVars

(* await rule.save() has returned: the rule enters the cache. *)
CreateAlertRuleReturns(o) ==
    /\ ops[o].op = "create"
    /\ ops[o].pc = "reply"
    /\ rules' = cacheSet(ops[o].result.id, ops[o].result)
    /\ ops' = over(o)
    /\ UNCHANGED <<now, alertCooldowns, alerts, sent, events, runs, ruleDocs>>
    /\ UNCHANGED healthVars
    /\ UNCHANGED ingestVars

(* updateAlertRule(ruleId, updateData) up to the answer of the store:
   AlertRule.findByIdAndUpdate(ruleId, updateData, {new: true}), which answers
   the updated rule, or null when the id is not stored. *)
UpdateAlertRule(ruleId, updateData, ok) ==
    LET found == findRuleById(ruleId)
        rule == IF found = NoRule THEN NoRule ELSE applyUpdate(found, updateData)
    IN  /\ Len(ops) < MaxOps
        /\ ruleDocs' = IF ok
                       THEN [i \in DOMAIN ruleDocs |->
                               IF ruleDocs[i].id = ruleId THEN rule ELSE ruleDocs[i]]
                       ELSE ruleDocs
        /\ ops' = Append(ops, newOp("update", ruleId, rule, ok))
        /\ UNCHANGED <<now, rules, alertCooldowns, alerts, sent, events, runs>>
        /\ UNCHANGED healthVars
        /\ UNCHANGED ingestVars

(* await AlertRule.findByIdAndUpdate has returned: an enabled rule is set in
   the cache, a disabled one deleted from it. *)
UpdateAlertRuleReturns(o) ==
    /\ ops[o].op = "update"
    /\ ops[o].pc = "reply"
    /\ rules' = IF ops[o].result = NoRule THEN rules
                ELSE IF ops[o].result.enabled
                     THEN cacheSet(ops[o].id, ops[o].result)
                     ELSE cacheDelete(ops[o].id)
    /\ ops' = over(o)
    /\ UNCHANGED <<now, alertCooldowns, alerts, sent, events, runs, ruleDocs>>
    /\ UNCHANGED healthVars
    /\ UNCHANGED ingestVars

(* deleteAlertRule(ruleId) up to the answer of the store:
   AlertRule.findByIdAndDelete(ruleId). *)
DeleteAlertRule(ruleId, ok) ==
    /\ Len(ops) < MaxOps
    /\ ruleDocs' = IF ok THEN SelectSeq(ruleDocs, LAMBDA doc : doc.id # ruleId)
                   ELSE ruleDocs
    /\ ops' = Append(ops, newOp("delete", ruleId, NoRule, ok))
    /\ UNCHANGED <<now, rules, alertCooldowns, alerts, sent, events, runs>>
    /\ UNCHANGED healthVars
    /\ UNCHANGED ingestVars

(* await AlertRule.findByIdAndDelete has returned: the rule leaves the cache. *)
DeleteAlertRuleReturns(o) ==
    /\ ops[o].op = "delete"
    /\ ops[o].pc = "reply"
    /\ rules' = cacheDelete(ops[o].id)
    /\ ops' = over(o)
    /\ UNCHANGED <<now, alertCooldowns, alerts, sent, events, runs, ruleDocs>>
    /\ UNCHANGED healthVars
    /\ UNCHANGED ingestVars

(* The engine after loadAlertRules, with one enabled rule stored. *)
InitRules ==
    /\ now = 0
    /\ ruleDocs = <<Rule2>>
    /\ rules = SelectSeq(ruleDocs, LAMBDA doc : doc.enabled)
    /\ alertCooldowns = <<>>
    /\ alerts = <<>>
    /\ sent = <<>>
    /\ events = <<>>
    /\ runs = <<>>
    /\ builds = SeedBuilds
    /\ projects = <<>>
    /\ metrics = <<>>
    /\ calls = <<>>
    /\ ops = <<>>
    /\ HealthIdle

(* A management call is made. *)
RuleCall ==
    \/ \E ruleData \in NewRules, ok \in BOOLEAN : CreateAlertRule(ruleData, ok)
    \/ \E ruleId \in RuleIds, updateData \in UpdateDatas, ok \in BOOLEAN :
          UpdateAlertRule(ruleId, updateData, ok)
    \/ \E ruleId \in RuleIds, ok \in BOOLEAN : DeleteAlertRule(ruleId, ok)

(* The continuation of a management call runs. *)
RuleCallReturns(o) ==
    \/ CreateAlertRuleReturns(o)
    \/ UpdateAlertRuleReturns(o)
    \/ DeleteAlertRuleReturns(o)

(* Rule management next to rule evaluation, one build at a time; management
   calls may overlap, and their answers may come back in any order. *)
NextRules ==
    \/ RuleCall
    \/ \E o \in DOMAIN ops : RuleCallReturns(o)
    \/ \E i \in DOMAIN builds : AllRunsDone /\ Dispatch(i)
    \/ \E r \in DOMAIN runs : RunStep(r)

SpecRules == InitRules /\ [][NextRules]_vars

(* The same, with the management calls made one at a time. *)
AllOpsOver == \A o \in DOMAIN ops : ops[o].pc \in {"done", "failed"}

NextRulesSeq ==
    \/ AllOpsOver /\ RuleCall
    \/ \E o \in DOMAIN ops : RuleCallReturns(o)
    \/ \E i \in DOMAIN builds : AllRunsDone /\ Dispatch(i)
    \/ \E r \in DOMAIN runs : RunStep(r)

SpecRulesSeq == InitRules /\ [][NextRulesSeq]_vars

-----------------------------------------------------------------------------
(* Alert lifecycle *)

(* An id under which no Alert is stored. *)
UnknownAlertId == <<"alert", 0, 0>>

(* Alert.findByIdAndUpdate(alertId, update, {new: true}): the stored alerts
   after the update. *)
updateAlertById(alertId, update) ==
    [k \in DOMAIN alerts |->
        IF alerts[k]._id = alertId
        THEN [f \in DOMAIN alerts[k] \cup DOMAIN update |->
                 IF f \in DOMAIN update THEN update[f] ELSE alerts[k][f]]
        ELSE alerts[k]]

(* What it answers: the updated Alert, or null (NoAlert) when the id is not
   stored. *)
updatedAlert(alertId, update) ==
    LET after == updateAlertById(alertId, update)
    IN  IF \E k \in DOMAIN alerts : alerts[k]._id = alertId
        THEN after[CHOOSE k \in DOMAIN alerts : alerts[k]._id = alertId]
        ELSE NoAlert

(* acknowledgeAlert(alertId, acknowledgedBy) up to the answer of the store. *)
AcknowledgeAlert(alertId, ok) ==
    LET update == [status |-> "acknowledged", acknowledgedAt |-> now]
    IN  /\ Len(ops) < MaxOps
        /\ alerts' = IF ok THEN updateAlertById(alertId, update) ELSE alerts
        /\ ops' = Append(ops, newOp("acknowledge", alertId,
                                    updatedAlert(alertId, update), ok))
        /\ UNCHANGED <<now, rules, alertCooldowns, sent, events, runs, ruleDocs>>
        /\ UNCHANGED healthVars
        /\ UNCHANGED ingestVars

(* await Alert.findByIdAndUpdate has returned: alert.acknowledged is emitted
   when an Alert came back. *)
AcknowledgeAlertReturns(o) ==
    /\ ops[o].op = "acknowledge"
    /\ ops[o].pc = "reply"
    /\ events' = IF ops[o].result = NoAlert THEN events
                 ELSE Append(events, [name |-> "alert.acknowledged",
                                      id |-> ops[o].result._id, at |-> now])
    /\ ops' = over(o)
    /\ UNCHANGED <<now, rules, alertCooldowns, alerts, sent, runs, ruleDocs>>
    /\ UNCHANGED healthVars
    /\ UNCHANGED ingestVars

(* resolveAlert(alertId, resolvedBy, resolution) up to the answer of the
   store. *)
ResolveAlert(alertId, ok) ==
    LET update == [status |-> "resolved", resolvedAt |-> now]
    IN  /\ Len(ops) < MaxOps
        /\ alerts' = IF ok THEN updateAlertById(alertId, update) ELSE alerts
        /\ ops' = Append(ops, newOp("resolve", alertId,
                                    updatedAlert(alertId, update), ok))
        /\ UNCHANGED <<now, rules, alertCooldowns, sent, events, runs, ruleDocs>>
        /\ UNCHANGED healthVars
        /\ UNCHANGED ingestVars

(* await Alert.findByIdAndUpdate has returned: alert.resolved is emitted when
   an Alert came back. *)
ResolveAlertReturns(o) ==
    /\ ops[o].op = "resolve"
    /\ ops[o].pc = "reply"
    /\ events' = IF ops[o].result = NoAlert THEN events
                 ELSE Append(events, [name |-> "alert.resolved",
                                      id |-> ops[o].result._id, at |-> now])
    /\ ops' = over(o)
    /\ UNCHANGED <<now, rules, alertCooldowns, alerts, sent, runs, ruleDocs>>
    /\ UNCHANGED healthVars
    /\ UNCHANGED ingestVars

(* The ids the lifecycle calls are made with. *)
AlertIds == {alerts[k]._id : k \in DOMAIN alerts} \cup {UnknownAlertId}

(* Alerts are raised by rule evaluation, one build at a time, and are
   acknowledged and resolved by calls made one at a time. *)
NextLifecycle ==
    \/ \E alertId \in AlertIds, ok \in BOOLEAN :
          AllOpsOver /\ AcknowledgeAlert(alertId, ok)
    \/ \E alertId \in AlertIds, ok \in BOOLEAN :
          AllOpsOver /\ ResolveAlert(alertId, ok)
    \/ \E o \in DOMAIN ops : AcknowledgeAlertReturns(o) \/ ResolveAlertReturns(o)
    \/ \E i \in DOMAIN builds : AllRunsDone /\ Dispatch(i)
    \/ \E r \in DOMAIN runs : RunStep(r)
    \/ Tick

SpecLifecycle == InitRules /\ [][NextLifecycle]_vars

-----------------------------------------------------------------------------
(* The metrics collector: normalization *)

MaxCalls == 2
MaxHours == 1

HourTicks == 60 * TicksPerMinute

(* A string field that is undefined. *)
Undefined == "<undefined>"

(* String.toUpperCase / toLowerCase on the status strings that occur. *)
CaseTable ==
    { <<"SUCCESS", "SUCCESS", "success">>, <<"Success", "SUCCESS", "success">>, <<"success", "SUCCESS", "success">>,
      <<"PASSED", "PASSED", "passed">>, <<"Passed", "PASSED", "passed">>, <<"passed", "PASSED", "passed">>,
      <<"COMPLETED", "COMPLETED", "completed">>, <<"Completed", "COMPLETED", "completed">>, <<"completed", "COMPLETED", "completed">>,
      <<"FAILURE", "FAILURE", "failure">>, <<"Failure", "FAILURE", "failure">>, <<"failure", "FAILURE", "failure">>,
      <<"FAILED", "FAILED", "failed">>, <<"Failed", "FAILED", "failed">>, <<"failed", "FAILED", "failed">>,
      <<"ERROR", "ERROR", "error">>, <<"Error", "ERROR", "error">>, <<"error", "ERROR", "error">>,
      <<"ABORTED", "ABORTED", "aborted">>, <<"Aborted", "ABORTED", "aborted">>, <<"aborted", "ABORTED", "aborted">>,
      <<"CANCELLED", "CANCELLED", "cancelled">>, <<"Cancelled", "CANCELLED", "cancelled">>, <<"cancelled", "CANCELLED", "cancelled">>,
      <<"UNSTABLE", "UNSTABLE", "unstable">>, <<"Unstable", "UNSTABLE", "unstable">>, <<"unstable", "UNSTABLE", "unstable">>,
      <<"RUNNING", "RUNNING", "running">>, <<"Running", "RUNNING", "running">>, <<"running", "RUNNING", "running">>,
      <<"IN_PROGRESS", "IN_PROGRESS", "in_progress">>, <<"In_Progress", "IN_PROGRESS", "in_progress">>, <<"in_progress", "IN_PROGRESS", "in_progress">>,
      <<"PENDING", "PENDING", "pending">>, <<"Pending", "PENDING", "pending">>, <<"pending", "PENDING", "pending">>,
      <<"QUEUED", "QUEUED", "queued">>, <<"Queued", "QUEUED", "queued">>, <<"queued", "QUEUED", "queued">>,
      <<"BANANA", "BANANA", "banana">>, <<"Banana", "BANANA", "banana">>, <<"banana", "BANANA", "banana">>,
      <<"UNKNOWN", "UNKNOWN", "unknown">>, <<"Unknown", "UNKNOWN", "unknown">>, <<"unknown", "UNKNOWN", "unknown">>,
      <<"NOT_BUILT", "NOT_BUILT", "not_built">>, <<"Not_Built", "NOT_BUILT", "not_built">>, <<"not_built", "NOT_BUILT", "not_built">> }

toUpperCase(str) == (CHOOSE t \in CaseTable : t[1] = str)[2]
toLowerCase(str) == (CHOOSE t \in CaseTable : t[1] = str)[3]

statusMap ==
    { <<"SUCCESS", "success">>, <<"PASSED", "success">>, <<"COMPLETED", "success">>,
      <<"FAILURE", "failure">>, <<"FAILED", "failure">>, <<"ERROR", "failure">>,
      <<"ABORTED", "aborted">>, <<"CANCELLED", "aborted">>,
      <<"UNSTABLE", "unstable">>,
      <<"RUNNING", "running">>, <<"IN_PROGRESS", "running">>,
      <<"PENDING", "pending">>, <<"QUEUED", "pending">> }

(* !status: the status is undefined or the empty string. *)
noStatus(buildData) == ~Has(buildData, "status") \/ buildData.status = ""

(* As normalizeStatus, but the status is looked up as it was sent, without
   toUpperCase. *)
normalizeStatusCaseSensitive(buildData) ==
    IF noStatus(buildData) THEN "unknown"
    ELSE IF \E e \in statusMap : e[1] = buildData.status
         THEN (CHOOSE e \in statusMap : e[1] = buildData.status)[2]
         ELSE toLowerCase(buildData.status)

(* normalizeStatus(buildData.status) *)
normalizeStatus(buildData) ==
    IF noStatus(buildData) THEN "unknown"
    ELSE LET up == toUpperCase(buildData.status)
         IN  IF \E e \in statusMap : e[1] = up
             THEN (CHOOSE e \in statusMap : e[1] = up)[2]
             ELSE toLowerCase(buildData.status)

(* a || b || d on string fields *)
StrOr2(obj, f, g, d) ==
    IF Has(obj, f) THEN obj[f] ELSE IF Has(obj, g) THEN obj[g] ELSE d

(* A number of seconds, in ticks. *)
secondsToTicks(sec) == (sec * TicksPerMinute) \div 60

(* normalizeBuildData, for the fields that the store, the metrics and the
   rules read.  Called at time `now`. *)
normalizeBuildData(buildData) ==
    LET duration == NumOr(buildData, "duration", 0)
        startTime == GetOr(buildData, "startTime", now)
    IN  [buildId |-> StrOr2(buildData, "buildId", "id", Undefined),
         projectName |-> StrOr2(buildData, "projectName", "job_name", Undefined),
         branch |-> StrOr2(buildData, "branch", "git_branch", "main"),
         status |-> normalizeStatus(buildData),
         duration |-> duration,
         startTime |-> startTime,
         endTime |-> IF Has(buildData, "endTime") THEN buildData.endTime
                     ELSE IF duration # 0 THEN startTime + secondsToTicks(duration)
                     ELSE now,
         buildNumber |-> NumOr(buildData, "buildNumber",
                               NumOr(buildData, "build_number", 1)),
         environment |-> GetOr(buildData, "environment", "development"),
         testResults |-> [total |-> 0, failed |-> 0],
         processedAt |-> now]

(* The webhook payloads that are delivered. *)
Payloads ==
    { [projectName |-> "api", buildId |-> "42", status |-> "FAILED",
       duration |-> 120, buildNumber |-> 7, environment |-> "production"],
      [projectName |-> "api", buildId |-> "42", status |-> "SUCCESS",
       duration |-> 60, buildNumber |-> 7, startTime |-> 0, endTime |-> 2],
      [job_name |-> "web", id |-> "7", status |-> "BANANA"] }

-----------------------------------------------------------------------------
(* The metrics collector: the store and processBuildData *)

Periods == <<"1h", "24h", "7d", "30d">>

(* getStartTimeForPeriod *)
getStartTimeForPeriod(period) ==
    CASE period = "1h" -> now - HourTicks
      [] period = "24h" -> now - 24 * HourTicks
      [] period = "7d" -> now - 7 * 24 * HourTicks
      [] period = "30d" -> now - 30 * 24 * HourTicks
      [] OTHER -> now - 24 * HourTicks

(* moment().startOf('hour') and moment().endOf('hour'): the first and the last
   instant of the current clock hour. *)
startOfHour(t) == (t \div HourTicks) * HourTicks
endOfHour(t) == startOfHour(t) + HourTicks - 1

NoBuild == [_id |-> <<"none">>]
NoMetric == [period |-> "none"]

(* Build.findOne({buildId, projectName}): the first stored build of that key,
   0 when there is none. *)
findOneBuild(buildId, projectName) ==
    LET hits == {i \in DOMAIN builds : /\ builds[i].buildId = buildId
                                        /\ builds[i].projectName = projectName}
    IN  IF hits = {} THEN 0 ELSE CHOOSE i \in hits : \A j \in hits : i <= j

(* A stored document: the normalized fields under an _id. *)
asDocument(id, data) ==
    [f \in DOMAIN data \cup {"_id"} |-> IF f = "_id" THEN id ELSE data[f]]

(* processBuildData is called: normalizeBuildData, then saveBuild starts its
   Build.findOne. *)
ProcessBuildData(buildData) ==
    /\ Len(calls) < MaxCalls
    /\ calls' = Append(calls,
            [payload |-> buildData, data |-> normalizeBuildData(buildData),
             pc |-> "findBuild", build |-> NoBuild, period |-> 0,
             metricData |-> NoMetric])
    /\ UNCHANGED <<now, builds, projects, metrics>>
    /\ UNCHANGED alertVars
    /\ UNCHANGED healthVars
    /\ UNCHANGED adminVars

(* As failed, but the catch of calculateAndSaveMetrics only logs: after a
   failure in a period the collector goes on with the next one. *)
failedUnlessInMetrics(call) ==
    IF call.pc \in {"findBuilds", "saveMetric"}
    THEN IF call.period < Len(Periods)
         THEN [call EXCEPT !.pc = "findBuilds", !.period = call.period + 1]
         ELSE [call EXCEPT !.pc = "emit"]
    ELSE [call EXCEPT !.pc = "failed"]

(* A store operation of the call throws: every catch block of the collector
   logs and rethrows, so processBuildData rejects. *)
failed(call) == [call EXCEPT !.pc = "failed"]

(* await Build.findOne returns.  An existing build takes the new fields
   (Object.assign) and is saved under its _id; otherwise a new Build is made.
   Either way build.save() starts. *)
(* As FindBuild, but build.processed is emitted as soon as the document is
   made, before it is saved. *)
FindBuildThenEvaluate(c, ok) ==
    LET call == calls[c]
        hit == findOneBuild(call.data.buildId, call.data.projectName)
        document == IF hit # 0 THEN asDocument(builds[hit]._id, call.data)
                    ELSE asDocument(<<"build", c>>, call.data)
    IN  /\ call.pc = "findBuild"
        /\ calls' = [calls EXCEPT ![c] =
                IF ~ok THEN failed(call)
                ELSE [call EXCEPT !.pc = "saveBuild", !.build = document]]
        /\ runs' = IF ok THEN Append(runs, startRun(document)) ELSE runs
        /\ UNCHANGED <<now, builds, projects, metrics>>
        /\ UNCHANGED <<rules, alertCooldowns, alerts, sent, events>>
        /\ UNCHANGED healthVars
        /\ UNCHANGED adminVars

FindBuild(c, ok) ==
    LET call == calls[c]
        hit == findOneBuild(call.data.buildId, call.data.projectName)
    IN  /\ call.pc = "findBuild"
        /\ calls' = [calls EXCEPT ![c] =
                IF ~ok THEN failed(call)
                ELSE IF hit # 0
                     THEN [call EXCEPT !.pc = "saveBuild",
                              !.build = asDocument(builds[hit]._id, call.data)]
                     ELSE [call EXCEPT !.pc = "saveBuild",
                              !.build = asDocument(<<"build", c>>, call.data)]]
        /\ UNCHANGED <<now, builds, projects, metrics>>
        /\ UNCHANGED alertVars
        /\ UNCHANGED healthVars
        /\ UNCHANGED adminVars

(* As saveDocument, but every save inserts. *)
insertDocument(doc) == Append(builds, doc)

(* document.save(): the stored document of that _id is replaced; a document
   whose _id is not stored is inserted. *)
saveDocument(doc) ==
    IF \E i \in DOMAIN builds : builds[i]._id = doc._id
    THEN [i \in DOMAIN builds |-> IF builds[i]._id = doc._id THEN doc ELSE builds[i]]
    ELSE Append(builds, doc)

(* await build.save() returns; updateProject starts its findOneAndUpdate. *)
SaveBuild(c, ok) ==
    LET call == calls[c]
    IN  /\ call.pc = "saveBuild"
        /\ builds' = IF ok THEN saveDocument(call.build) ELSE builds
        /\ calls' = [calls EXCEPT ![c] =
                IF ok THEN [call EXCEPT !.pc = "updateProject"] ELSE failed(call)]
        /\ UNCHANGED <<now, projects, metrics>>
        /\ UNCHANGED alertVars
        /\ UNCHANGED healthVars
        /\ UNCHANGED adminVars

(* As upsertProject, but a stored project keeps its values when its last
   build ended later than this one. *)
upsertProjectIfNewer(build) ==
    LET projectData == [name |-> build.projectName, lastBuildId |-> build._id,
                        lastBuildStatus |-> build.status,
                        lastBuildTime |-> build.endTime, updatedAt |-> now]
        hits == {i \in DOMAIN projects : projects[i].name = build.projectName}
        first == CHOOSE i \in hits : \A j \in hits : i <= j
    IN  IF hits = {} THEN Append(projects, projectData)
        ELSE IF projects[first].lastBuildTime > build.endTime THEN projects
        ELSE [projects EXCEPT ![first] = projectData]

(* Project.findOneAndUpdate({name}, projectData, {upsert: true}) *)
upsertProject(build) ==
    LET projectData == [name |-> build.projectName, lastBuildId |-> build._id,
                        lastBuildStatus |-> build.status,
                        lastBuildTime |-> build.endTime, updatedAt |-> now]
        hits == {i \in DOMAIN projects : projects[i].name = build.projectName}
        first == CHOOSE i \in hits : \A j \in hits : i <= j
    IN  IF hits = {} THEN Append(projects, projectData)
        ELSE [projects EXCEPT ![first] = projectData]

(* The next period of calculateAndSaveMetrics starts its Build.find; after the
   last one the collector goes on to its emits. *)
nextPeriod(call) ==
    IF call.period < Len(Periods)
    THEN [call EXCEPT !.pc = "findBuilds", !.period = call.period + 1,
                      !.metricData = NoMetric]
    ELSE [call EXCEPT !.pc = "emit", !.metricData = NoMetric]

(* await Project.findOneAndUpdate returns; calculateAndSaveMetrics starts. *)
UpdateProject(c, ok) ==
    LET call == calls[c]
    IN  /\ call.pc = "updateProject"
        /\ projects' = IF ok THEN upsertProject(call.build) ELSE projects
        /\ calls' = [calls EXCEPT ![c] =
                IF ok THEN nextPeriod(call) ELSE failed(call)]
        /\ UNCHANGED <<now, builds, metrics>>
        /\ UNCHANGED alertVars
        /\ UNCHANGED healthVars
        /\ UNCHANGED adminVars

(* Build.find({projectName, endTime: {$gte: startTime}}) of
   calculateMetricsForPeriod; startTime was taken when the query was made,
   which the model does at the instant of its answer. *)
buildsForPeriod(projectName, period) ==
    {i \in DOMAIN builds : /\ builds[i].projectName = projectName
                           /\ builds[i].endTime >= getStartTimeForPeriod(period)}

(* await Build.find returns.  No build: the period is left.  Otherwise the
   metric document is made, with the clock hour of this instant as the key of
   the upsert, and Metric.findOneAndUpdate starts. *)
FindBuilds(c, ok) ==
    LET call == calls[c]
        period == Periods[call.period]
        found == buildsForPeriod(call.build.projectName, period)
    IN  /\ call.pc = "findBuilds"
        /\ calls' = [calls EXCEPT ![c] =
                IF ~ok THEN failed(call)
                ELSE IF found = {} THEN nextPeriod(call)
                ELSE [call EXCEPT !.pc = "saveMetric",
                         !.metricData = [projectName |-> call.build.projectName,
                                         period |-> period, timestamp |-> now,
                                         buildIds |-> {builds[i]._id : i \in found},
                                         from |-> startOfHour(now),
                                         to |-> endOfHour(now)]]]
        /\ UNCHANGED <<now, builds, projects, metrics>>
        /\ UNCHANGED alertVars
        /\ UNCHANGED healthVars
        /\ UNCHANGED adminVars

(* Metric.findOneAndUpdate({projectName, period, timestamp: {$gte: from,
   $lt: to}}, metricData, {upsert: true}) *)
upsertMetric(m) ==
    LET metricDoc == [projectName |-> m.projectName, period |-> m.period,
                      timestamp |-> m.timestamp, buildIds |-> m.buildIds]
        hits == {i \in DOMAIN metrics :
                    /\ metrics[i].projectName = m.projectName
                    /\ metrics[i].period = m.period
                    /\ metrics[i].timestamp >= m.from
                    /\ metrics[i].timestamp < m.to}
        first == CHOOSE i \in hits : \A j \in hits : i <= j
    IN  IF hits = {} THEN Append(metrics, metricDoc)
        ELSE [metrics EXCEPT ![first] = metricDoc]

(* await Metric.findOneAndUpdate returns. *)
SaveMetric(c, ok) ==
    LET call == calls[c]
    IN  /\ call.pc = "saveMetric"
        /\ metrics' = IF ok THEN upsertMetric(call.metricData) ELSE metrics
        /\ calls' = [calls EXCEPT ![c] =
                IF ok THEN nextPeriod(call) ELSE failed(call)]
        /\ UNCHANGED <<now, builds, projects>>
        /\ UNCHANGED alertVars
        /\ UNCHANGED healthVars
        /\ UNCHANGED adminVars

(* As EmitUpdates, but the collector goes on only when the alert engine has
   finished with the builds handed to it before. *)
EmitUpdatesAfterRules(c) ==
    LET call == calls[c]
        build == call.build
    IN  /\ call.pc = "emit"
        /\ \A r \in DOMAIN runs : runs[r].pc = "done"
        /\ events' = events \o
              << [name |-> "build.completed", id |-> build._id,
                  projectName |-> build.projectName, status |-> build.status,
                  buildNumber |-> build.buildNumber, timestamp |-> build.endTime,
                  at |-> now],
                 [name |-> "project.build.update", id |-> build._id,
                  projectName |-> build.projectName, status |-> build.status,
                  buildNumber |-> build.buildNumber, timestamp |-> build.endTime,
                  at |-> now] >>
        /\ runs' = Append(runs, startRun(build))
        /\ calls' = [calls EXCEPT ![c] = [call EXCEPT !.pc = "done"]]
        /\ UNCHANGED <<now, builds, projects, metrics>>
        /\ UNCHANGED <<rules, alertCooldowns, alerts, sent>>
        /\ UNCHANGED healthVars
        /\ UNCHANGED adminVars

(* After the last period: emitRealtimeUpdates, then emit('build.processed'),
   whose listener enters alertEngine.evaluateRules(build). *)
EmitUpdates(c) ==
    LET call == calls[c]
        build == call.build
    IN  /\ call.pc = "emit"
        /\ events' = events \o
              << [name |-> "build.completed", id |-> build._id,
                  projectName |-> build.projectName, status |-> build.status,
                  buildNumber |-> build.buildNumber, timestamp |-> build.endTime,
                  at |-> now],
                 [name |-> "project.build.update", id |-> build._id,
                  projectName |-> build.projectName, status |-> build.status,
                  buildNumber |-> build.buildNumber, timestamp |-> build.endTime,
                  at |-> now] >>
        /\ runs' = Append(runs, startRun(build))
        /\ calls' = [calls EXCEPT ![c] = [call EXCEPT !.pc = "done"]]
        /\ UNCHANGED <<now, builds, projects, metrics>>
        /\ UNCHANGED <<rules, alertCooldowns, alerts, sent>>
        /\ UNCHANGED healthVars
        /\ UNCHANGED adminVars

(* The instants at which the collector is observed: the first and the last
   instant of each clock hour. *)
ClockInstants ==
    {h * HourTicks + o : h \in 0 .. MaxHours - 1, o \in {0, HourTicks - 1}}

(* Time passes, up to a later one of these instants. *)
Elapse(t) ==
    /\ t > now
    /\ now' = t
    /\ UNCHANGED <<builds, projects, metrics, calls>>
    /\ UNCHANGED alertVars
    /\ UNCHANGED healthVars
    /\ UNCHANGED adminVars

(* The collector over an empty store; the alert engine has no rule. *)
InitIngest ==
    /\ now = 0
    /\ rules = <<>>
    /\ ruleDocs = <<>>
    /\ ops = <<>>
    /\ HealthIdle
    /\ alertCooldowns = <<>>
    /\ alerts = <<>>
    /\ sent = <<>>
    /\ events = <<>>
    /\ runs = <<>>
    /\ builds = <<>>
    /\ projects = <<>>
    /\ metrics = <<>>
    /\ calls = <<>>

CallStep(c) ==
    \/ \E ok \in BOOLEAN : FindBuild(c, ok)
    \/ \E ok \in BOOLEAN : SaveBuild(c, ok)
    \/ \E ok \in BOOLEAN : UpdateProject(c, ok)
    \/ \E ok \in BOOLEAN : FindBuilds(c, ok)
    \/ \E ok \in BOOLEAN : SaveMetric(c, ok)
    \/ EmitUpdates(c)

NextIngest ==
    \/ \E buildData \in Payloads : ProcessBuildData(buildData)
    \/ \E c \in DOMAIN calls : CallStep(c)
    \/ \E t \in ClockInstants : Elapse(t)

SpecIngest == InitIngest /\ [][NextIngest]_vars

(* The same, with the webhooks processed one after the other: a call starts
   only when every earlier call has returned or thrown. *)
AllCallsOver == \A c \in DOMAIN calls : calls[c].pc \in {"done", "failed"}

NextIngestSeq ==
    \/ \E buildData \in Payloads : AllCallsOver /\ ProcessBuildData(buildData)
    \/ \E c \in DOMAIN calls : CallStep(c)
    \/ \E t \in ClockInstants : Elapse(t)

SpecIngestSeq == InitIngest /\ [][NextIngestSeq]_vars

(* Webhook payloads at the edge of what the collector is sent: a build that
   ended more than an hour (and less than a day) ago, a payload without a
   build identifier, a payload without a project name. *)
EdgePayloads ==
    { [projectName |-> "api", buildId |-> "40", status |-> "SUCCESS",
       duration |-> 60, startTime |-> 0 - 2 * HourTicks,
       endTime |-> 2 - 2 * HourTicks],
      [projectName |-> "api", status |-> "FAILED"],
      [buildId |-> "9", status |-> "SUCCESS"] }

(* The collector sent these payloads, one webhook after the other. *)
NextIngestEdge ==
    \/ \E buildData \in EdgePayloads : AllCallsOver /\ ProcessBuildData(buildData)
    \/ \E c \in DOMAIN calls : CallStep(c)
    \/ \E t \in ClockInstants : Elapse(t)

SpecIngestEdge == InitIngest /\ [][NextIngestEdge]_vars

(* The statuses that CI systems send: every key of statusMap and some words
   that are not keys, in upper case, capitalized and in lower case, and the
   empty string. *)
StatusInputs == {t[1] : t \in CaseTable} \cup {""}

(* One build, sent with each status and with no status at all. *)
StatusPayloads ==
    {[projectName |-> "api", buildId |-> "42", status |-> str] : str \in StatusInputs}
        \cup {[projectName |-> "api", buildId |-> "42"]}

(* The build that call c normalized is sent again as it was normalized. *)
RedeliverNormalized(c) ==
    ProcessBuildData([projectName |-> calls[c].data.projectName,
                      buildId |-> calls[c].data.buildId,
                      status |-> calls[c].data.status])

(* One webhook with any of the statuses, then the normalized build sent
   again, one call after the other. *)
NextStatus ==
    \/ \E buildData \in StatusPayloads : calls = <<>> /\ ProcessBuildData(buildData)
    \/ \E c \in DOMAIN calls : AllCallsOver /\ c = Len(calls) /\ RedeliverNormalized(c)
    \/ \E c \in DOMAIN calls : CallStep(c)
    \/ \E t \in ClockInstants : Elapse(t)

SpecStatus == InitIngest /\ [][NextStatus]_vars

-----------------------------------------------------------------------------
(* The collector and the alert engine together *)

(* A build-failure rule without filters, with one channel. *)
Rule6 ==
    [id |-> "r6", name |-> "any build failed",
     condition |-> [type |-> "build_failure",
                    parameters |-> [projects |-> <<>>, branches |-> <<>>,
                                    environments |-> <<>>]],
     channels |-> <<[type |-> "slack"]>>,
     severity |-> "critical", cooldownMinutes |-> 1, enabled |-> TRUE]

(* An empty store, and an engine that has loaded two rules. *)
InitPipeline ==
    /\ now = 0
    /\ ruleDocs = <<Rule6, Rule2>>
    /\ rules = ruleDocs
    /\ alertCooldowns = <<>>
    /\ alerts = <<>>
    /\ sent = <<>>
    /\ events = <<>>
    /\ runs = <<>>
    /\ builds = <<>>
    /\ projects = <<>>
    /\ metrics = <<>>
    /\ calls = <<>>
    /\ ops = <<>>
    /\ HealthIdle

(* One webhook is ingested; the build.processed listener hands its build to
   the alert engine. *)
NextPipeline ==
    \/ \E buildData \in Payloads : calls = <<>> /\ ProcessBuildData(buildData)
    \/ \E c \in DOMAIN calls : CallStep(c)
    \/ \E r \in DOMAIN runs : RunStep(r)
    \/ Tick

SpecPipeline == InitPipeline /\ [][NextPipeline]_vars

(* The store answers the operation that call c awaits, or the call makes its
   emits. *)
StoreAnswers(c) ==
    /\ c \in DOMAIN calls
    /\ \/ FindBuild(c, TRUE)
       \/ SaveBuild(c, TRUE)
       \/ UpdateProject(c, TRUE)
       \/ FindBuilds(c, TRUE)
       \/ SaveMetric(c, TRUE)
       \/ EmitUpdates(c)

(* An evaluateRules call awaits a channel of the notification service. *)
ChannelOutstanding == \E r \in DOMAIN runs : runs[r].pc = "send"

(* An evaluateRules call goes on up to its call of a channel. *)
RunsUpToChannel(r) ==
    \/ \E storeOk \in BOOLEAN : EvalRule(r, storeOk)
    \/ TriggerAlert(r)
    \/ \E ok \in BOOLEAN : SaveAlert(r, ok)

(* Channel calls never return.  After a first webhook, further webhooks
   arrive while a channel call is outstanding; the store answers every
   operation. *)
NextHang ==
    \/ \E buildData \in Payloads : calls = <<>> /\ ProcessBuildData(buildData)
    \/ \E buildData \in Payloads :
          /\ calls # <<>>
          /\ AllCallsOver
          /\ ChannelOutstanding
          /\ ProcessBuildData(buildData)
    \/ \E c \in DOMAIN calls : StoreAnswers(c)
    \/ \E r \in DOMAIN runs : RunsUpToChannel(r)
    \/ Tick

(* The store goes on answering; nothing makes a channel call return. *)
SpecHang ==
    /\ InitPipeline
    /\ [][NextHang]_vars
    /\ \A c \in 1 .. MaxCalls : WF_vars(StoreAnswers(c))

-----------------------------------------------------------------------------
(* Rules that query the stored builds *)

(* Two failed builds of api/main are stored: numbers 5 and 6. *)
History ==
    << [_id |-> <<"seed", 1>>, buildId |-> "45", projectName |-> "api", branch |-> "main",
        status |-> "failure", duration |-> 120, startTime |-> 0, endTime |-> 0,
        buildNumber |-> 5, environment |-> "production",
        testResults |-> [total |-> 0, failed |-> 0], processedAt |-> 0],
       [_id |-> <<"seed", 2>>, buildId |-> "46", projectName |-> "api", branch |-> "main",
        status |-> "failure", duration |-> 60, startTime |-> 0, endTime |-> 0,
        buildNumber |-> 6, environment |-> "production",
        testResults |-> [total |-> 0, failed |-> 0], processedAt |-> 0] >>

(* The webhooks that follow: build 7 of api/main, failed or passed; build 3,
   whose webhook comes late, failed or passed; a first build of another
   branch. *)
HistoryPayloads ==
    { [projectName |-> "api", buildId |-> "47", status |-> "FAILED", buildNumber |-> 7],
      [projectName |-> "api", buildId |-> "47", status |-> "SUCCESS", buildNumber |-> 7],
      [projectName |-> "api", buildId |-> "43", status |-> "FAILED", buildNumber |-> 3],
      [projectName |-> "api", buildId |-> "43", status |-> "SUCCESS", buildNumber |-> 3],
      [projectName |-> "api", buildId |-> "1", status |-> "FAILED", buildNumber |-> 1,
       branch |-> "dev"] }

(* The engine has loaded the consecutive-failures rule; the store holds the
   history. *)
InitHistory ==
    /\ now = 0
    /\ ruleDocs = <<Rule4>>
    /\ rules = ruleDocs
    /\ alertCooldowns = <<>>
    /\ alerts = <<>>
    /\ sent = <<>>
    /\ events = <<>>
    /\ runs = <<>>
    /\ builds = History
    /\ projects = <<>>
    /\ metrics = <<>>
    /\ calls = <<>>
    /\ ops = <<>>
    /\ HealthIdle

(* The webhooks are ingested one after the other, at one instant; each build
   is handed to the alert engine. *)
NextHistory ==
    \/ \E buildData \in HistoryPayloads : AllCallsOver /\ ProcessBuildData(buildData)
    \/ \E c \in DOMAIN calls : CallStep(c)
    \/ \E r \in DOMAIN runs : RunStep(r)

SpecHistory == InitHistory /\ [][NextHistory]_vars

(* An error-rate rule: 58 percent of at least 3 builds of the last hour. *)
Rule7 ==
    [id |-> "r7", name |-> "error rate",
     condition |-> [type |-> "error_rate",
                    parameters |-> [timeWindowMinutes |-> 60,
                                    errorRateThreshold |-> 58,
                                    minimumBuilds |-> 3]],
     channels |-> <<[type |-> "slack"]>>,
     severity |-> "warning", cooldownMinutes |-> 1, enabled |-> TRUE]

(* total builds of api that ended at instant 0, the first failedCount of them
   failed. *)
StoredBuilds(total, failedCount) ==
    [i \in 1 .. total |->
        [_id |-> <<"seed", i>>, buildId |-> <<"b", i>>, projectName |-> "api",
         branch |-> "main",
         status |-> IF i <= failedCount THEN "failure" ELSE "success",
         duration |-> 60, startTime |-> 0, endTime |-> 0, buildNumber |-> i,
         environment |-> "production",
         testResults |-> [total |-> 0, failed |-> 0], processedAt |-> 0]]

(* The histories the rule is evaluated over: <<total, failed>>. *)
Histories == { <<1, 0>>, <<1, 1>>, <<2, 1>>, <<4, 0>>, <<4, 2>>, <<49, 28>>, <<49, 29>> }

(* One more build of api, failed or passed. *)
NextBuildPayloads ==
    { [projectName |-> "api", buildId |-> "next", status |-> "FAILED", buildNumber |-> 99],
      [projectName |-> "api", buildId |-> "next", status |-> "SUCCESS", buildNumber |-> 99] }

(* The engine has loaded the error-rate rule; the store holds one of the
   histories. *)
InitErrorRate ==
    /\ now = 0
    /\ ruleDocs = <<Rule7>>
    /\ rules = ruleDocs
    /\ alertCooldowns = <<>>
    /\ alerts = <<>>
    /\ sent = <<>>
    /\ events = <<>>
    /\ runs = <<>>
    /\ \E h \in Histories : builds = StoredBuilds(h[1], h[2])
    /\ projects = <<>>
    /\ metrics = <<>>
    /\ calls = <<>>
    /\ ops = <<>>
    /\ HealthIdle

(* One webhook is ingested and its build handed to the alert engine. *)
NextErrorRate ==
    \/ \E buildData \in NextBuildPayloads : calls = <<>> /\ ProcessBuildData(buildData)
    \/ \E c \in DOMAIN calls : CallStep(c)
    \/ \E r \in DOMAIN runs : RunStep(r)
    \/ Tick

SpecErrorRate == InitErrorRate /\ [][NextErrorRate]_vars

-----------------------------------------------------------------------------
(* Rules that look at the build alone *)

(* A rule of a condition, with one channel. *)
ConditionRule(condition) ==
    [id |-> "rc", name |-> "condition", condition |-> condition,
     channels |-> <<[type |-> "slack"]>>,
     severity |-> "warning", cooldownMinutes |-> 1, enabled |-> TRUE]

(* The thresholds, in minutes, that duration-threshold rules are configured
   with. *)
ThresholdMinutes == {0, 1, 2}

DurationRules ==
    {ConditionRule([type |-> "duration_threshold",
                    parameters |-> [thresholdMinutes |-> m]]) : m \in ThresholdMinutes}

(* The lists a filter of a build-failure rule is configured with; a filter
   may also be left out. *)
FilterLists ==
    [projects |-> {<<>>, <<"api">>, <<"web", "mobile">>},
     branches |-> {<<>>, <<"main">>, <<"dev", "release">>},
     environments |-> {<<>>, <<"production">>, <<"staging">>}]

BuildFailureParameters ==
    UNION {{p \in [D -> UNION {FilterLists[f] : f \in DOMAIN FilterLists}] :
                \A f \in D : p[f] \in FilterLists[f]} : D \in SUBSET DOMAIN FilterLists}

BuildFailureRules ==
    {ConditionRule([type |-> "build_failure", parameters |-> p]) :
        p \in BuildFailureParameters}

(* Builds of two projects, two branches and two environments, failed or
   passed, that took from no time to a little over an hour. *)
ConditionPayloads ==
    {[projectName |-> "api", buildId |-> "1", status |-> "FAILED", duration |-> d] :
        d \in {0, 59, 60, 61, 120, 121, 1800, 1801}}
    \cup {[projectName |-> p, buildId |-> "1", status |-> st, branch |-> b,
           environment |-> e] :
             p \in {"api", "web"}, st \in {"FAILED", "SUCCESS"},
             b \in {"main", "dev"}, e \in {"production", "staging"}}
    \cup {[projectName |-> "mobile", buildId |-> "1", status |-> "FAILED"]}

(* The engine has loaded one of these rules; the store is empty. *)
InitConditions ==
    /\ now = 0
    /\ \E rule \in DurationRules \cup BuildFailureRules : ruleDocs = <<rule>>
    /\ rules = ruleDocs
    /\ alertCooldowns = <<>>
    /\ alerts = <<>>
    /\ sent = <<>>
    /\ events = <<>>
    /\ runs = <<>>
    /\ builds = <<>>
    /\ projects = <<>>
    /\ metrics = <<>>
    /\ calls = <<>>
    /\ ops = <<>>
    /\ HealthIdle

(* One webhook is ingested, the store answering, and its build is handed to
   the alert engine. *)
NextConditions ==
    \/ \E buildData \in ConditionPayloads : calls = <<>> /\ ProcessBuildData(buildData)
    \/ \E c \in DOMAIN calls : StoreAnswers(c)
    \/ \E r \in DOMAIN runs : RunStep(r)

SpecConditions == InitConditions /\ [][NextConditions]_vars

-----------------------------------------------------------------------------
(* The times of a normalized build *)

(* One build, sent with or without a start time, a duration in seconds and
   an end time. *)
TimePayloads ==
    LET Base == [projectName |-> "api", buildId |-> "50", status |-> "SUCCESS"]
        With(obj, f, values) ==
            {obj} \cup {[g \in DOMAIN obj \cup {f} |-> IF g = f THEN v ELSE obj[g]] :
                            v \in values}
    IN  UNION {UNION {With(q, "endTime", {2}) : q \in With(p, "duration", {0, 30, 60})} :
                  p \in With(Base, "startTime", {0, 1})}

(* One webhook is ingested at some instant. *)
NextTimes ==
    \/ \E buildData \in TimePayloads : calls = <<>> /\ ProcessBuildData(buildData)
    \/ \E c \in DOMAIN calls : CallStep(c)
    \/ Tick

SpecTimes == InitIngest /\ [][NextTimes]_vars

-----------------------------------------------------------------------------
(* The health app *)

MaxRequests == 2

(* The requests made of the app: GET requests without a body, and POST
   requests whose body is JSON or is not. *)
Requests ==
    {[method |-> "GET", path |-> p, body |-> "none"] :
        p \in {"/health", "/health/detailed", "/ready", "/error", "/api/status",
               "/nowhere"}}
    \cup {[method |-> "POST", path |-> "/api/status", body |-> b] :
            b \in {"json", "malformed"}}

(* As allHealthy, but one healthy dependency is enough. *)
someHealthy(dependencies) ==
    \E dep \in DOMAIN dependencies : dependencies[dep].status = "healthy"

(* Object.values(appState.dependencies).every(dep => dep.status === 'healthy') *)
allHealthy(dependencies) ==
    \A dep \in DOMAIN dependencies : dependencies[dep].status = "healthy"

(* The route that answers a request which the middleware let through: the
   status and the body of the answer, and whether the handler counts an
   error. *)
route(req, state) ==
    IF req.method # "GET"
    THEN [status |-> 404, body |-> "Endpoint not found", error |-> FALSE]
    ELSE CASE req.path = "/health" ->
                [status |-> 200, body |-> "healthy", error |-> FALSE]
           [] req.path = "/health/detailed" ->
                [status |-> 200, body |-> "healthy", error |-> FALSE]
           [] req.path = "/ready" ->
                IF allHealthy(state.dependencies)
                THEN [status |-> 200, body |-> "ready", error |-> FALSE]
                ELSE [status |-> 503, body |-> "not ready", error |-> FALSE]
           [] req.path = "/api/status" ->
                [status |-> 200, body |-> "operational", error |-> FALSE]
           [] req.path = "/error" ->
                [status |-> 500, body |-> "Simulated error for testing",
                 error |-> TRUE]
           [] OTHER ->
                [status |-> 404, body |-> "Endpoint not found", error |-> FALSE]

(* A request goes through the middleware.  express.json() hands a body that
   is not JSON to the error-handling middleware, which counts an error and
   answers 500; any other request is counted and routed.  The answer is kept
   with appState as it was when the answer was made, which is what
   /health/detailed reports. *)
Request(req) ==
    /\ Len(responses) < MaxRequests
    /\ LET counted == [appState EXCEPT !.requestCount = @ + 1]
           answer == route(req, counted)
       IN  IF req.body = "malformed"
           THEN /\ appState' = [appState EXCEPT !.errors = @ + 1]
                /\ responses' = Append(responses,
                        [request |-> req, status |-> 500,
                         body |-> "Something went wrong!", appState |-> appState'])
           ELSE /\ appState' = IF answer.error
                               THEN [counted EXCEPT !.errors = @ + 1]
                               ELSE counted
                /\ responses' = Append(responses,
                        [request |-> req, status |-> answer.status,
                         body |-> answer.body, appState |-> appState'])
    /\ UNCHANGED timers
    /\ UNCHANGED <<now, alertVars, ingestVars, adminVars>>

(* The scheduled check, every 30 seconds: each dependency may be found
   unhealthy, and a timer is set to make it healthy again 5 seconds later.
   The timers of the check before have fired by then. *)
ScheduledCheck(unhealthy) ==
    /\ timers = {}
    /\ appState' = [appState EXCEPT !.dependencies =
            [dep \in Dependencies |->
                IF dep \in unhealthy THEN [status |-> "unhealthy"]
                ELSE appState.dependencies[dep]]]
    /\ timers' = unhealthy
    /\ UNCHANGED responses
    /\ UNCHANGED <<now, alertVars, ingestVars, adminVars>>

(* The recovery timer of a dependency fires. *)
RecoveryTimer(dep) ==
    /\ dep \in timers
    /\ appState' = [appState EXCEPT !.dependencies[dep] = [status |-> "healthy"]]
    /\ timers' = timers \ {dep}
    /\ UNCHANGED responses
    /\ UNCHANGED <<now, alertVars, ingestVars, adminVars>>

NextHealth ==
    \/ \E req \in Requests : Request(req)
    \/ \E unhealthy \in SUBSET Dependencies : ScheduledCheck(unhealthy)
    \/ \E dep \in Dependencies : RecoveryTimer(dep)

SpecHealth == InitIngest /\ [][NextHealth]_vars

-----------------------------------------------------------------------------
(* The initial load of the rule cache *)

(* A rule that is created enabled. *)
Rule8 ==
    [id |-> "r8", name |-> "any failure",
     condition |-> [type |-> "build_failure",
                    parameters |-> [projects |-> <<>>, branches |-> <<>>,
                                    environments |-> <<>>]],
     channels |-> <<[type |-> "slack"]>>,
     severity |-> "warning", cooldownMinutes |-> 1, enabled |-> TRUE]

(* The store answers the AlertRule.find({enabled: true}) that loadAlertRules
   made from the constructor (or the find fails). *)
LoadAlertRules(ok) ==
    /\ \A o \in DOMAIN ops : ops[o].op # "load"
    /\ ops' = Append(ops, newOp("load", "all",
                                SelectSeq(ruleDocs, LAMBDA doc : doc.enabled), ok))
    /\ UNCHANGED <<now, rules, alertCooldowns, alerts, sent, events, runs, ruleDocs>>
    /\ UNCHANGED healthVars
    /\ UNCHANGED ingestVars

(* await AlertRule.find has returned: this.rules.clear(), then every rule
   found is set.  An iteration under way no longer reaches the entries that
   were cleared and goes on with the ones set. *)
LoadAlertRulesReturns(o) ==
    /\ ops[o].op = "load"
    /\ ops[o].pc = "reply"
    /\ rules' = [i \in DOMAIN rules |-> Deleted] \o ops[o].result
    /\ ops' = over(o)
    /\ UNCHANGED <<now, alertCooldowns, alerts, sent, events, runs, ruleDocs>>
    /\ UNCHANGED healthVars
    /\ UNCHANGED ingestVars

(* The engine right after its constructor: one enabled rule is stored, the
   cache is empty and the find of loadAlertRules is on its way. *)
InitLoad ==
    /\ now = 0
    /\ ruleDocs = <<Rule2>>
    /\ rules = <<>>
    /\ alertCooldowns = <<>>
    /\ alerts = <<>>
    /\ sent = <<>>
    /\ events = <<>>
    /\ runs = <<>>
    /\ builds = SeedBuilds
    /\ projects = <<>>
    /\ metrics = <<>>
    /\ calls = <<>>
    /\ ops = <<>>
    /\ HealthIdle

(* The load next to rule evaluation, one build at a time, and to the creation
   of an enabled rule. *)
NextLoad ==
    \/ \E ok \in BOOLEAN : LoadAlertRules(ok)
    \/ \E o \in DOMAIN ops : LoadAlertRulesReturns(o)
    \/ \E ok \in BOOLEAN : CreateAlertRule(Rule8, ok)
    \/ \E o \in DOMAIN ops : CreateAlertRuleReturns(o)
    \/ \E i \in DOMAIN builds : AllRunsDone /\ Dispatch(i)
    \/ \E r \in DOMAIN runs : RunStep(r)
    \/ Tick

SpecLoad == InitLoad /\ [][NextLoad]_vars

-----------------------------------------------------------------------------
(* Properties of the alert dispatcher *)

AllRules == {Rule1, Rule2, Rule3, Rule4}

ruleById(id) == CHOOSE rule \in AllRules : rule.id = id

(* The alert.triggered events of the Alerts of one rule for one project. *)
FiredEvents(ruleId, projectName) ==
    {k \in DOMAIN events :
        /\ events[k].name = "alert.triggered"
        /\ events[k].projectName = projectName
        /\ \E i \in DOMAIN alerts : /\ alerts[i]._id = events[k].id
                                    /\ alerts[i].ruleId = ruleId}

(* Run r takes the step that makes the cooldown check of triggerAlert. *)
ChecksCooldown(r) == runs[r].pc = "trigger" /\ runs'[r] # runs[r]

(* That step goes on to create the Alert / suppresses the dispatch. *)
GoesOn(r) == runs'[r].pc = "save"
Suppressed(r) == runs'[r].pc # "save"

(* C1: no two Alerts of the same rule for the same project are created less
   than the rule's cooldownMinutes apart, however the evaluateRules calls of
   different builds interleave. *)
C1_NoTwoAlertsInsideCooldown ==
    \A i, j \in DOMAIN alerts :
        (/\ i < j
         /\ alerts[i].ruleId = alerts[j].ruleId
         /\ alerts[i].projectName = alerts[j].projectName)
        => \/ alerts[j].timestamp - alerts[i].timestamp
                >= ruleById(alerts[i].ruleId).cooldownMinutes * TicksPerMinute
           \/ alerts[i].timestamp - alerts[j].timestamp
                >= ruleById(alerts[i].ruleId).cooldownMinutes * TicksPerMinute

(* C2: with the builds dispatched one after another and a rule of cooldown
   c > 0, a dispatch goes on to create its Alert exactly when every earlier
   dispatch of the rule for the project that created an Alert was completed at
   least c whole minutes ago. *)
C2_SequentialCooldownGate ==
    [][\A r \in DOMAIN runs :
          (ChecksCooldown(r) /\ runs[r].rule.cooldownMinutes > 0)
          => LET c == runs[r].rule.cooldownMinutes
                 fired == FiredEvents(runs[r].rule.id, runs[r].build.projectName)
             IN  GoesOn(r) <=>
                    \A k \in fired : (now - events[k].at) \div TicksPerMinute >= c
      ]_vars

(* Two Alerts of one rule with a cooldown for one project: the second was
   created after the cooldown of the first had run out. *)
C2_Witness ==
    \E i, j \in DOMAIN alerts :
        /\ i < j
        /\ alerts[i].ruleId = alerts[j].ruleId
        /\ alerts[i].projectName = alerts[j].projectName
        /\ ruleById(alerts[i].ruleId).cooldownMinutes > 0

(* C3: a dispatch is suppressed exactly when now - lastFired is below the
   rule's cooldownMinutes; so a rule with cooldownMinutes 0 is never
   suppressed. *)
C3_SuppressedIffInsideConfiguredCooldown ==
    [][\A r \in DOMAIN runs :
          ChecksCooldown(r)
          => LET key == <<runs[r].rule.id, runs[r].build.projectName>>
             IN  Suppressed(r) <=>
                    /\ key \in DOMAIN alertCooldowns
                    /\ (now - alertCooldowns[key]) \div TicksPerMinute
                          < runs[r].rule.cooldownMinutes
      ]_vars

(* C4: a dispatch suppressed by the cooldown changes nothing: no Alert, no
   notification, no event, the cooldown entry as it was, and the loop of
   evaluateRules goes on with the next rule. *)
C4_SuppressedDispatchHasNoEffect ==
    [][\A r \in DOMAIN runs :
          (ChecksCooldown(r) /\ Suppressed(r))
          => /\ alerts' = alerts
             /\ sent' = sent
             /\ events' = events
             /\ alertCooldowns' = alertCooldowns
             /\ runs'[r].idx = runs[r].idx + 1
             /\ runs'[r].pc \in {"eval", "done"}
             /\ \A q \in DOMAIN runs : q # r => runs'[q] = runs[q]
      ]_vars

(* A dispatch was suppressed. *)
C4_Witness ==
    \E r \in DOMAIN runs : \E i \in DOMAIN runs[r].trail :
        runs[r].trail[i] = "suppressed"

(* The Alerts whose dispatch is completed and all of whose channel deliveries
   threw. *)
AttemptsOf(alertId) == {k \in DOMAIN sent : sent[k].alert = alertId}

AllDeliveriesFailed ==
    {i \in DOMAIN alerts :
        /\ \E k \in DOMAIN events : /\ events[k].name = "alert.triggered"
                                    /\ events[k].id = alerts[i]._id
        /\ AttemptsOf(alerts[i]._id) # {}
        /\ \A k \in AttemptsOf(alerts[i]._id) : ~sent[k].ok}

(* C5: after a dispatch that stored its Alert and failed on every channel, the
   cooldown entry of (rule, project) holds the instant at which the last
   dispatch for that pair was completed, and a further match inside the
   rule's cooldown window is suppressed. *)
C5_CooldownSetThoughDeliveriesFailed ==
    [][/\ \A i \in AllDeliveriesFailed' :
            LET key == <<alerts'[i].ruleId, alerts'[i].projectName>>
                fired == FiredEvents(alerts[i].ruleId, alerts[i].projectName)'
            IN  /\ key \in DOMAIN alertCooldowns'
                /\ \E k \in fired : alertCooldowns'[key] = events'[k].at
                /\ \A k \in fired : alertCooldowns'[key] >= events'[k].at
       /\ \A r \in DOMAIN runs :
            (/\ ChecksCooldown(r)
             /\ \E i \in AllDeliveriesFailed :
                  /\ alerts[i].ruleId = runs[r].rule.id
                  /\ alerts[i].projectName = runs[r].build.projectName
                  /\ \E k \in DOMAIN events :
                        /\ events[k].id = alerts[i]._id
                        /\ (now - events[k].at) \div TicksPerMinute
                              < runs[r].rule.cooldownMinutes)
            => Suppressed(r)
      ]_vars

(* A dispatch failed on every channel, and a later match of the same rule for
   the same project was suppressed. *)
C5_Witness ==
    \E i \in AllDeliveriesFailed : \E r \in DOMAIN runs :
        /\ alerts[i]._id[2] # r
        /\ runs[r].build.projectName = alerts[i].projectName
        /\ \E n \in DOMAIN runs[r].trail :
              /\ rules[n].id = alerts[i].ruleId
              /\ runs[r].trail[n] = "suppressed"

(* The deliveries attempted for an Alert, in the order of the calls. *)
RECURSIVE AttemptSeq(_, _)
AttemptSeq(log, alertId) ==
    IF log = <<>> THEN <<>>
    ELSE IF Head(log).alert = alertId
         THEN <<Head(log)>> \o AttemptSeq(Tail(log), alertId)
         ELSE AttemptSeq(Tail(log), alertId)

(* C6: for every stored Alert the deliveries attempted so far are the first
   channels of its rule, each once, in list order, whatever failed; when its
   run has left the rule, every channel was attempted and alert.triggered was
   emitted once, and not before; and the Alert of every dispatch that was
   stored is still stored, as it was created. *)
C6_EveryChannelAttemptedInOrder ==
    /\ \A i \in DOMAIN alerts :
          LET a == alerts[i]
              r == a._id[2]
              rule == ruleById(a.ruleId)
              attempts == AttemptSeq(sent, a._id)
              emitted == {k \in DOMAIN events :
                             /\ events[k].name = "alert.triggered"
                             /\ events[k].id = a._id}
          IN  /\ Len(attempts) <= Len(rule.channels)
              /\ \A n \in DOMAIN attempts :
                    /\ attempts[n].ch = n
                    /\ attempts[n].type = rule.channels[n].type
              /\ IF runs[r].idx = a._id[3]
                 THEN /\ runs[r].pc = "send"
                      /\ Len(attempts) = runs[r].ch - 1
                      /\ emitted = {}
                 ELSE /\ Len(attempts) = Len(rule.channels)
                      /\ Cardinality(emitted) = 1
              /\ a.status = "active"
              /\ a.projectName = runs[r].build.projectName
              /\ a.buildId = runs[r].build._id
    /\ \A r \in DOMAIN runs :
          /\ \A n \in DOMAIN runs[r].trail :
                runs[r].trail[n] = "fired"
                => Cardinality({i \in DOMAIN alerts :
                                   alerts[i]._id = <<"alert", r, n>>}) = 1
          /\ runs[r].pc = "send"
                => Cardinality({i \in DOMAIN alerts :
                                   alerts[i] = runs[r].alert}) = 1

(* An Alert whose first channel failed and whose second channel was attempted
   all the same, with alert.triggered emitted. *)
C6_Witness ==
    \E i \in DOMAIN alerts :
        LET attempts == AttemptSeq(sent, alerts[i]._id)
        IN  /\ Len(attempts) = 2
            /\ ~attempts[1].ok
            /\ \E k \in DOMAIN events : /\ events[k].name = "alert.triggered"
                                        /\ events[k].id = alerts[i]._id

(* C7: whatever a rule throws, evaluateRules goes through the whole cache: a
   call that is over has an outcome for every cached rule, a rule that matches
   the build is never passed over as not matching, each "fired" outcome has its
   stored Alert, and a call never ends but at the end of the cache. *)
C7_RuleIsolation ==
    \A r \in DOMAIN runs :
        LET run == runs[r]
        IN  /\ run.pc \in {"eval", "trigger", "save", "send", "done"}
            /\ Len(run.trail) = run.idx - 1
            /\ run.pc = "done" <=> run.idx = Len(rules) + 1
            /\ \A n \in DOMAIN run.trail :
                  /\ run.trail[n] = "nomatch"
                        <=> evaluateRule(rules[n], run.build, TRUE) = "nomatch"
                  /\ run.trail[n] = "fired"
                        => \E i \in DOMAIN alerts : alerts[i]._id = <<"alert", r, n>>

(* A call in which the first rule threw and the second one fired. *)
C7_Witness ==
    \E r \in DOMAIN runs :
        /\ runs[r].pc = "done"
        /\ Len(runs[r].trail) = 2
        /\ runs[r].trail[1] = "threw"
        /\ runs[r].trail[2] = "fired"

-----------------------------------------------------------------------------
(* Properties of the metrics collector *)

(* Call c takes the step in which its build.save() succeeds. *)
SavesBuild(c) == calls[c].pc = "saveBuild" /\ calls'[c].pc = "updateProject"

(* The stored builds of a key. *)
BuildsOfKey(store, projectName, buildId) ==
    {i \in DOMAIN store : /\ store[i].projectName = projectName
                          /\ store[i].buildId = buildId}

(* The save leaves exactly one record of the call's key, with the normalized
   values of the call's payload. *)
OneRecordWithLatestValues(c) ==
    LET data == calls[c].data
        hits == BuildsOfKey(builds', data.projectName, data.buildId)
    IN  /\ Cardinality(hits) = 1
        /\ \A i \in hits : \A f \in DOMAIN data : builds'[i][f] = data[f]

(* Call c delivers again the payload of the call before it, and the store
   holds the build as that call saved it. *)
Redelivery(c) ==
    /\ c > 1
    /\ calls[c - 1].payload = calls[c].payload
    /\ \E i \in DOMAIN builds :
          /\ builds[i]._id = calls[c - 1].build._id
          /\ \A f \in DOMAIN calls[c - 1].data : builds[i][f] = calls[c - 1].data[f]

(* C8, as claimed: with the payloads processed one after the other, a save
   leaves exactly one Build of the key, holding the normalized values of the
   later payload, and processing the identical payload a second time leaves
   the Build store as it was. *)
C8_UpsertIdempotentAsClaimed ==
    [][\A c \in DOMAIN calls :
          SavesBuild(c)
          => /\ OneRecordWithLatestValues(c)
             /\ Redelivery(c) => builds' = builds
      ]_vars

(* The fields that normalizeBuildData takes from the clock for a payload. *)
ClockFields(buildData) ==
    {"processedAt"}
    \cup (IF Has(buildData, "startTime") THEN {} ELSE {"startTime"})
    \cup (IF Has(buildData, "endTime") THEN {}
          ELSE IF Has(buildData, "startTime") /\ NumOr(buildData, "duration", 0) # 0
               THEN {} ELSE {"endTime"})

(* C8, amended: the same, but the second processing of an identical payload
   may change, in the one Build of the key, the fields that normalization
   takes from the clock: processedAt, and startTime / endTime where the
   payload does not fix them. *)
C8_UpsertIdempotentUpToClockFields ==
    [][\A c \in DOMAIN calls :
          SavesBuild(c)
          => /\ OneRecordWithLatestValues(c)
             /\ Redelivery(c)
                => /\ Len(builds') = Len(builds)
                   /\ \A i \in DOMAIN builds : \A f \in DOMAIN builds[i] :
                         builds'[i][f] # builds[i][f]
                         => /\ f \in ClockFields(calls[c].payload)
                            /\ builds[i].projectName = calls[c].data.projectName
                            /\ builds[i].buildId = calls[c].data.buildId
      ]_vars

(* Two payloads of one key were processed in turn, a failure and then a
   success: one Build is stored, a success. *)
C8_Witness ==
    /\ Len(calls) >= 2
    /\ calls[1].pc = "done"
    /\ calls[2].pc = "done"
    /\ calls[1].data.status = "failure"
    /\ calls[2].data.status = "success"
    /\ calls[1].data.buildId = calls[2].data.buildId
    /\ calls[1].data.projectName = calls[2].data.projectName
    /\ Len(builds) = 1
    /\ builds[1].status = "success"

(* C9: the Build collection never holds two records of one
   (projectName, buildId), however the processBuildData calls interleave. *)
C9_OneBuildPerKey ==
    \A i, j \in DOMAIN builds :
        (/\ builds[i].projectName = builds[j].projectName
         /\ builds[i].buildId = builds[j].buildId) => i = j

(* C10: the Metric collection never holds two documents of one
   (projectName, period, clock hour). *)
C10_OneMetricPerHourBucket ==
    \A i, j \in DOMAIN metrics :
        (/\ metrics[i].projectName = metrics[j].projectName
         /\ metrics[i].period = metrics[j].period
         /\ metrics[i].timestamp \div HourTicks = metrics[j].timestamp \div HourTicks)
        => i = j

(* The last call has returned its build, and no time has passed since it was
   made. *)
JustCompleted(c) ==
    /\ c = Len(calls)
    /\ calls[c].pc = "done"
    /\ calls[c].data.processedAt = now

(* C11: after a successful processBuildData, for every period the Metric
   document of the build's project in the current clock hour lists exactly the
   project's stored builds with endTime >= now - period, also when there is no
   such build. *)
C11_MetricsRewrittenForEveryPeriod ==
    \A c \in DOMAIN calls :
        JustCompleted(c)
        => \A p \in DOMAIN Periods :
              \E i \in DOMAIN metrics :
                 /\ metrics[i].projectName = calls[c].build.projectName
                 /\ metrics[i].period = Periods[p]
                 /\ metrics[i].timestamp \div HourTicks = now \div HourTicks
                 /\ metrics[i].buildIds =
                       {builds[j]._id :
                          j \in buildsForPeriod(calls[c].build.projectName, Periods[p])}

(* A store operation awaited by call c throws. *)
StoreFails(c) ==
    \/ FindBuild(c, FALSE)
    \/ SaveBuild(c, FALSE)
    \/ UpdateProject(c, FALSE)
    \/ FindBuilds(c, FALSE)
    \/ SaveMetric(c, FALSE)

(* The calls that returned their build. *)
CompletedCalls == {c \in DOMAIN calls : calls[c].pc = "done"}

(* One build.completed event and one evaluateRules call per completed call. *)
EmissionsMatchCompletedCalls ==
    /\ Cardinality({k \in DOMAIN events : events[k].name = "build.completed"})
          = Cardinality(CompletedCalls)
    /\ Len(runs) = Cardinality(CompletedCalls)

(* C12: a store failure in the Build upsert, the Project upsert or a Metric
   recomputation makes processBuildData fail; the failing step undoes nothing
   that was written and emits nothing, a failed call does nothing more, and
   build.completed events and rule evaluations exist only for the calls that
   completed. *)
C12_StoreFailureAbortsProcessing ==
    [][/\ \A c \in DOMAIN calls :
            /\ StoreFails(c)
               => /\ calls'[c].pc = "failed"
                  /\ UNCHANGED <<builds, projects, metrics, events, runs>>
            /\ calls[c].pc = "failed" => calls'[c] = calls[c]
       /\ EmissionsMatchCompletedCalls'
      ]_vars

(* A call failed in its second or a later period: its build and the Metric of
   an earlier period are stored, and no build.completed tells of the build. *)
C12_Witness ==
    \E c \in DOMAIN calls :
        /\ calls[c].pc = "failed"
        /\ calls[c].period >= 2
        /\ \E i \in DOMAIN builds : builds[i]._id = calls[c].build._id
        /\ \E i \in DOMAIN metrics : /\ calls[c].build._id \in metrics[i].buildIds
                                     /\ metrics[i].period = Periods[1]
        /\ \A k \in DOMAIN events : events[k].id # calls[c].build._id

(* The last call made for a project. *)
LastCallOf(projectName) ==
    CHOOSE c \in DOMAIN calls :
        /\ calls[c].data.projectName = projectName
        /\ \A d \in DOMAIN calls : calls[d].data.projectName = projectName => d <= c

(* C13: when the calls made so far, one after the other, have all completed,
   there is exactly one Project per project name seen, and it holds the id,
   the status and the end time of the build processed last for that project,
   whatever the values of the builds processed before. *)
C13_ProjectLastWriteWins ==
    (\A c \in DOMAIN calls : calls[c].pc = "done")
    => /\ \A c \in DOMAIN calls :
            LET name == calls[c].data.projectName
                last == calls[LastCallOf(name)].build
                docs == {i \in DOMAIN projects : projects[i].name = name}
            IN  /\ Cardinality(docs) = 1
                /\ \A i \in docs :
                      /\ projects[i].lastBuildId = last._id
                      /\ projects[i].lastBuildStatus = last.status
                      /\ projects[i].lastBuildTime = last.endTime
       /\ \A i \in DOMAIN projects :
            \E c \in DOMAIN calls : calls[c].data.projectName = projects[i].name

(* Two builds of one project were processed in turn, the second one ending
   earlier than the first: the Project holds the second one's values. *)
C13_Witness ==
    /\ Len(calls) = 2
    /\ calls[1].pc = "done"
    /\ calls[2].pc = "done"
    /\ calls[1].data.projectName = calls[2].data.projectName
    /\ calls[2].build.endTime < calls[1].build.endTime
    /\ calls[2].build.status # calls[1].build.status
    /\ Len(projects) = 1
    /\ projects[1].lastBuildTime = calls[2].build.endTime
    /\ projects[1].lastBuildStatus = calls[2].build.status

-----------------------------------------------------------------------------
(* Properties of alert and rule management *)

(* C14: once the status of an Alert is resolved, no acknowledgeAlert or
   resolveAlert call changes it, and no alert.acknowledged event is emitted
   for the Alert. *)
C14_ResolvedIsFinal ==
    [][\A k \in DOMAIN alerts :
          alerts[k].status = "resolved"
          => /\ alerts'[k].status = "resolved"
             /\ \A e \in DOMAIN events' :
                   (e > Len(events) /\ events'[e].name = "alert.acknowledged")
                   => events'[e].id # alerts[k]._id
      ]_vars

(* Call o has taken the rule out of evaluation: a delete, or an update that
   came back with enabled = false. *)
Disables(o) ==
    \/ ops[o].op = "delete"
    \/ /\ ops[o].op = "update"
       /\ ops[o].result # NoRule
       /\ ~ops[o].result.enabled

(* The store carried out, after call o, a call that left the rule of that id
   stored as enabled. *)
EnabledAgainAfter(o) ==
    \E p \in DOMAIN ops :
        /\ p > o
        /\ ops[p].id = ops[o].id
        /\ ops[p].op \in {"create", "update"}
        /\ ops[p].pc # "failed"
        /\ ops[p].result # NoRule
        /\ ops[p].result.enabled

(* The Alerts saved by the r-th evaluateRules call for a rule. *)
AlertsOfRun(r, ruleId) ==
    {k \in DOMAIN alerts : alerts[k]._id[2] = r /\ alerts[k].ruleId = ruleId}

(* C15: once an update that disables a rule, or a delete of the rule, has
   completed, no evaluateRules call that starts afterwards creates an Alert
   (and so sends a notification) for the rule, as long as the rule has not
   been enabled again. *)
C15_DisabledRuleRaisesNoAlert ==
    \A o \in DOMAIN ops :
        (/\ ops[o].op \in {"update", "delete"}
         /\ ops[o].pc = "done"
         /\ Disables(o)
         /\ ~EnabledAgainAfter(o))
        => \A r \in DOMAIN runs : r > ops[o].seen => AlertsOfRun(r, ops[o].id) = {}

(* The rules that an evaluateRules call entered now would go through. *)
CachedRules == {rules[i] : i \in DOMAIN rules} \ {Deleted}

(* C16: with the management calls made one at a time, whenever none is under
   way the cache holds exactly the stored rules with enabled = true, each in
   its stored version; a rule created with enabled = false is not cached. *)
C16_CacheMirrorsEnabledRules ==
    AllOpsOver
    => CachedRules = {ruleDocs[i] : i \in {j \in DOMAIN ruleDocs : ruleDocs[j].enabled}}

-----------------------------------------------------------------------------
(* Properties of the collector and the engine together *)

(* The positions in events of the events of a name. *)
EventsNamed(name) == {e \in DOMAIN events : events[e].name = name}

(* The cached rules that a build matches. *)
MatchingRules(build) ==
    {i \in DOMAIN rules : evaluateRule(rules[i], build, TRUE) = "match"}

(* C17: when one ingested build has gone through the rules, k of which match
   it (none in cooldown, one channel each) and no store operation failed,
   there are exactly k Alerts, all active, k calls on the notification
   service, one build.completed event and k alert.triggered events, and
   build.completed comes before every alert.triggered. *)
C17_OneBuildFiresEachMatchingRuleOnce ==
    \A r \in DOMAIN runs :
        (/\ runs[r].pc = "done"
         /\ \A n \in DOMAIN runs[r].trail : runs[r].trail[n] # "threw")
        => LET k == Cardinality(MatchingRules(runs[r].build))
           IN  /\ Len(alerts) = k
               /\ \A a \in DOMAIN alerts : alerts[a].status = "active"
               /\ Len(sent) = k
               /\ Cardinality(EventsNamed("build.completed")) = 1
               /\ Cardinality(EventsNamed("alert.triggered")) = k
               /\ \A b \in EventsNamed("build.completed") :
                     \A t \in EventsNamed("alert.triggered") : b < t

(* The failed production build of the scenario has gone through both rules:
   two Alerts, two notifications, build.completed and two alert.triggered. *)
C17_Witness ==
    /\ Len(runs) = 1
    /\ runs[1].pc = "done"
    /\ runs[1].trail = <<"fired", "fired">>
    /\ runs[1].build.status = "failure"
    /\ Len(alerts) = 2
    /\ Len(sent) = 2
    /\ Cardinality(EventsNamed("alert.triggered")) = 2
    /\ events[1].name = "build.completed"

(* Call c has returned with its build and its project stored and its
   build.completed emitted. *)
Processed(c) ==
    /\ c \in DOMAIN calls
    /\ calls[c].pc = "done"
    /\ calls[c].period = Len(Periods)
    /\ \E i \in DOMAIN builds : builds[i]._id = calls[c].build._id
    /\ \E i \in DOMAIN projects : /\ projects[i].name = calls[c].build.projectName
                                  /\ projects[i].lastBuildId = calls[c].build._id
    /\ \E e \in EventsNamed("build.completed") : events[e].id = calls[c].build._id

(* C18: while a channel call never returns, every processBuildData call that
   is made goes through its Build upsert, its Project upsert and its four
   Metric recomputations and emits build.completed. *)
C18_HungChannelDoesNotBlockIngest ==
    \A c \in 1 .. MaxCalls : (c \in DOMAIN calls) ~> Processed(c)

(* A webhook that arrived while a channel call was outstanding has been
   processed, and the channel call is still outstanding. *)
C18_Witness ==
    /\ Len(calls) = 2
    /\ Processed(2)
    /\ runs[1].pc = "send"
    /\ Len(sent) = 0

-----------------------------------------------------------------------------
(* Properties of normalization *)

(* A payload without a project name or without a build identifier. *)
Incomplete(buildData) ==
    \/ ~(Has(buildData, "projectName") \/ Has(buildData, "job_name"))
    \/ ~(Has(buildData, "buildId") \/ Has(buildData, "id"))

(* C19: a payload that lacks the project name or the build identifier is
   rejected: no step of its processing writes a Build, a Project or a Metric,
   emits an event or hands a build to the rules, and the call does not return
   a build. *)
C19_IncompletePayloadRejected ==
    [][\A c \in DOMAIN calls :
          (Incomplete(calls[c].payload) /\ calls'[c] # calls[c])
          => /\ UNCHANGED <<builds, projects, metrics, events, runs>>
             /\ calls'[c].pc # "done"
      ]_vars

(* The classes of statuses, as the claim lists them. *)
StatusClasses ==
    { <<{"SUCCESS", "PASSED", "COMPLETED"}, "success">>,
      <<{"FAILURE", "FAILED", "ERROR"}, "failure">>,
      <<{"ABORTED", "CANCELLED"}, "aborted">>,
      <<{"UNSTABLE"}, "unstable">>,
      <<{"RUNNING", "IN_PROGRESS"}, "running">>,
      <<{"PENDING", "QUEUED"}, "pending">> }

(* The string is one of the words, letter case ignored. *)
IsOneOf(str, words) == \E word \in words : toUpperCase(str) = word

(* The call was sent a status that is a non-empty string. *)
SentStatus(c) == Has(calls[c].payload, "status") /\ calls[c].payload.status # ""

(* C20: the status of every normalized build follows from the status sent,
   letter case ignored: a word of a class gives the status of the class; any
   other non-empty string gives itself in lower case; no status (none sent, or
   the empty string) gives unknown, and nothing else does except a string that
   spells unknown itself; a status that is sent as an earlier call normalized
   it comes back unchanged. *)
C20_StatusNormalization ==
    \A c \in DOMAIN calls :
        LET raw == calls[c].payload
            status == calls[c].data.status
        IN  /\ \A class \in StatusClasses :
                   (SentStatus(c) /\ IsOneOf(raw.status, class[1])) => status = class[2]
            /\ (SentStatus(c) /\ \A class \in StatusClasses : ~IsOneOf(raw.status, class[1]))
                   => status = toLowerCase(raw.status)
            /\ ~SentStatus(c) => status = "unknown"
            /\ status = "unknown"
                   => (~SentStatus(c) \/ toLowerCase(raw.status) = "unknown")
            /\ \A d \in 1 .. (c - 1) :
                   (SentStatus(c) /\ raw.status = calls[d].data.status)
                       => status = raw.status

(* C20 witness: a capitalized FAILED was normalized to failure, and the
   normalized build, sent again with status failure, kept it. *)
C20_Witness ==
    /\ Len(calls) = 2
    /\ SentStatus(1)
    /\ calls[1].payload.status = "Failed"
    /\ calls[1].data.status = "failure"
    /\ calls[2].payload.status = "failure"
    /\ calls[2].data.status = "failure"
    /\ calls[2].pc = "done"

-----------------------------------------------------------------------------
(* Properties of the rule conditions *)

(* The evaluation of the rule in hand of run r ends in this step with a
   verdict (it does not throw). *)
Decides(r, type) ==
    /\ runs[r].pc = "eval"
    /\ runs[r].rule.condition.type = type
    /\ runs'[r] # runs[r]
    /\ ~(/\ Len(runs'[r].trail) = Len(runs[r].trail) + 1
         /\ runs'[r].trail[Len(runs'[r].trail)] = "threw")

(* The rule in hand of run r matched in this step. *)
Matches(r) == runs'[r].pc = "trigger"

(* C21: a consecutive-failures rule matches a build if and only if the count
   stored builds of the build's project and branch with the highest build
   numbers are count in number and all failed. *)
C21_ConsecutiveFailuresDecidedByStore ==
    [][\A r \in DOMAIN runs :
          Decides(r, "consecutive_failures") =>
              LET build == runs[r].build
                  count == GetOr(runs[r].rule.condition.parameters,
                                 "consecutiveCount", DefaultConsecutiveCount)
                  top == MostRecentBuilds(build.projectName, build.branch, count)
              IN  Matches(r) <=> /\ Cardinality(top) = count
                                 /\ \A i \in top : builds[i].status = "failure"
      ]_vars

(* C22: an error-rate rule matches a build if and only if the stored builds
   of the build's project that ended in the window are at least minimumBuilds
   in number and failed * 100 >= thresholdPercent * n, failed counting those
   of status failure. *)
C22_ErrorRateDecision ==
    [][\A r \in DOMAIN runs :
          Decides(r, "error_rate") =>
              LET parameters == runs[r].rule.condition.parameters
                  inWindow == {i \in DOMAIN builds :
                      /\ builds[i].projectName = runs[r].build.projectName
                      /\ builds[i].endTime
                            >= now - parameters.timeWindowMinutes * TicksPerMinute}
                  n == Cardinality(inWindow)
                  failedCount ==
                      Cardinality({i \in inWindow : builds[i].status = "failure"})
              IN  Matches(r) <=>
                      /\ n >= parameters.minimumBuilds
                      /\ failedCount * 100 >= parameters.errorRateThreshold * n
      ]_vars

(* C23: a duration-threshold rule matches a build if and only if the build's
   duration in seconds is above 60 times the configured thresholdMinutes, for
   every configured threshold from 0 on. *)
C23_DurationAboveThreshold ==
    [][\A r \in DOMAIN runs :
          Decides(r, "duration_threshold") =>
              (Matches(r) <=>
                  runs[r].build.duration
                      > 60 * runs[r].rule.condition.parameters.thresholdMinutes)
      ]_vars

(* The filter of a build-failure rule lets the value pass: the list is left
   out, is empty, or holds the value. *)
FilterPasses(parameters, filter, value) ==
    \/ filter \notin DOMAIN parameters
    \/ parameters[filter] = <<>>
    \/ \E k \in DOMAIN parameters[filter] : parameters[filter][k] = value

(* C24: a build-failure rule matches a build if and only if the build's
   status is failure and each of the filters projects, branches and
   environments is left out, is empty or holds the build's value. *)
C24_BuildFailureFilters ==
    [][\A r \in DOMAIN runs :
          Decides(r, "build_failure") =>
              LET parameters == runs[r].rule.condition.parameters
                  build == runs[r].build
              IN  Matches(r) <=>
                      /\ build.status = "failure"
                      /\ FilterPasses(parameters, "projects", build.projectName)
                      /\ FilterPasses(parameters, "branches", build.branch)
                      /\ FilterPasses(parameters, "environments", build.environment)
      ]_vars

(* C24 witness: a failed build of api on dev in staging has matched a rule
   whose project filter is empty, whose branch filter is left out and whose
   environment filter holds staging. *)
C24_Witness ==
    \E r \in DOMAIN runs :
        /\ runs[r].pc = "trigger"
        /\ runs[r].rule.condition.type = "build_failure"
        /\ runs[r].build.status = "failure"
        /\ runs[r].build.branch = "dev"
        /\ DOMAIN runs[r].rule.condition.parameters = {"projects", "environments"}
        /\ runs[r].rule.condition.parameters.projects = <<>>
        /\ runs[r].rule.condition.parameters.environments = <<"staging">>

(* C25: the end time of a normalized build is the end time of the payload
   when it carries one, and otherwise the normalized start time plus the
   normalized duration, whatever the duration, 0 included. *)
C25_EndTimeDerivedFromStartAndDuration ==
    \A c \in DOMAIN calls :
        LET raw == calls[c].payload
            data == calls[c].data
        IN  IF Has(raw, "endTime") THEN data.endTime = raw.endTime
            ELSE data.endTime = data.startTime + secondsToTicks(data.duration)

-----------------------------------------------------------------------------
(* Properties of the health app *)

(* The k-th answer was made to a GET of the path. *)
AnswersGet(k, path) ==
    /\ responses[k].request.method = "GET"
    /\ responses[k].request.path = path

(* C26: every answer to GET /ready is 200 ready when all three dependencies
   were healthy as it was made, and 503 not ready otherwise, whatever checks,
   timers and requests came before; every answer to GET /health is 200
   healthy. *)
C26_ReadyIffAllDependenciesHealthy ==
    \A k \in DOMAIN responses :
        LET everyHealthy ==
                \A dep \in Dependencies :
                    responses[k].appState.dependencies[dep].status = "healthy"
        IN  /\ AnswersGet(k, "/ready") =>
                IF everyHealthy
                THEN responses[k].status = 200 /\ responses[k].body = "ready"
                ELSE responses[k].status = 503 /\ responses[k].body = "not ready"
            /\ AnswersGet(k, "/health") =>
                responses[k].status = 200 /\ responses[k].body = "healthy"

(* C26 witness: GET /ready was answered 503 while a dependency was unhealthy
   and, after the recovery timers, 200. *)
C26_Witness ==
    /\ Len(responses) = 2
    /\ AnswersGet(1, "/ready") /\ responses[1].status = 503
    /\ AnswersGet(2, "/ready") /\ responses[2].status = 200
    /\ timers = {}

(* C27: every request that is answered raises requestCount by exactly 1; a
   GET /error raises errors by exactly 1 and a request to any other endpoint
   leaves errors as it was; no step lowers a counter. *)
C27_CountersCountRequestsAndErrors ==
    [][/\ appState'.requestCount >= appState.requestCount
       /\ appState'.errors >= appState.errors
       /\ Len(responses') = Len(responses) + 1 =>
            LET req == responses'[Len(responses')].request
            IN  /\ appState'.requestCount = appState.requestCount + 1
                /\ appState'.errors =
                      IF req.method = "GET" /\ req.path = "/error"
                      THEN appState.errors + 1
                      ELSE appState.errors
      ]_vars

-----------------------------------------------------------------------------
(* Properties of the order of effects *)

(* C28: while a channel delivery of a dispatch is in progress, the Alert of
   the dispatch is stored and the cooldown entry of its rule and project has
   been written by this dispatch. *)
C28_CooldownSetBeforeDelivery ==
    \A r \in DOMAIN runs :
        (runs[r].pc = "send" /\ runs[r].ch <= Len(runs[r].rule.channels)) =>
            LET key == cooldownKey(runs[r].rule, runs[r].build)
            IN  /\ \E k \in DOMAIN alerts : alerts[k]._id = runs[r].alert._id
                /\ key \in DOMAIN alertCooldowns
                /\ alertCooldowns[key] >= runs[r].alert.timestamp

(* C29: whenever an evaluateRules call exists for a build, the
   processBuildData call of that build has returned after all four periods,
   the build's record and its project's record are in the store, and
   build.completed has been emitted for it: the queries of the error-rate and
   consecutive-failures rules are made on a store that holds the build. *)
C29_RulesEvaluatedAfterBuildIsStored ==
    \A r \in DOMAIN runs :
        LET build == runs[r].build
        IN  /\ \E c \in DOMAIN calls :
                  /\ calls[c].pc = "done"
                  /\ calls[c].build._id = build._id
                  /\ calls[c].period = Len(Periods)
            /\ \E i \in DOMAIN builds : builds[i]._id = build._id
            /\ \E p \in DOMAIN projects : projects[p].name = build.projectName
            /\ \E k \in DOMAIN events :
                  /\ events[k].name = "build.completed"
                  /\ events[k].id = build._id

(* C29 witness: the consecutive-failures rule has matched the failed build 7
   that the first webhook brought, the store holding it next to builds 5
   and 6. *)
C29_Witness ==
    \E r \in DOMAIN runs :
        /\ runs[r].pc = "trigger"
        /\ runs[r].rule.condition.type = "consecutive_failures"
        /\ runs[r].build.buildNumber = 7
        /\ \E i \in DOMAIN builds : builds[i] = runs[r].build

-----------------------------------------------------------------------------
(* Properties of the initial load *)

(* The cache holds a rule of the id. *)
Cached(id) == \E i \in DOMAIN rules : rules[i] # Deleted /\ rules[i].id = id

(* A call that stored or changed the rule of the id has yet to run its
   continuation. *)
AwaitsCache(id) ==
    \E o \in DOMAIN ops : ops[o].id = id /\ ops[o].pc = "reply"

(* Every rule that is enabled in the store, and whose own call is over, is
   in the cache. *)
CacheComplete ==
    \A d \in DOMAIN ruleDocs :
        (ruleDocs[d].enabled /\ ~AwaitsCache(ruleDocs[d].id)) => Cached(ruleDocs[d].id)

(* C30: an evaluateRules call is entered only on a cache that holds every
   rule enabled in the store, also while the load of the constructor is in
   flight; and once the load and the calls made meanwhile are over, the cache
   holds every rule enabled in the store. *)
C30_InitialLoadIsSafe ==
    /\ [][Len(runs') > Len(runs) => CacheComplete]_vars
    /\ [](AllOpsOver /\ (\E o \in DOMAIN ops : ops[o].op = "load") => CacheComplete)

=============================================================================
